---- MODULE Spec2Model ----
(***************************************************************************)
(* State-machine model of the three contracts of DeFi Autopilot            *)
(* (src/contracts/RebalancingEngine.sol): PortfolioManager (the ledger),   *)
(* YieldOracle (the registry) and RebalancingEngine (the coordinator).     *)
(*                                                                         *)
(* Units.  Ether amounts are counted in finney (10^15 wei), so that        *)
(* 0.01 ether = 10 and 0.02 ether = 20; TVL is counted in units of         *)
(* 10^6 * 10^18 (one million dollars); yields are basis points; time is    *)
(* seconds.  Every transaction is one atomic step: a revert restores the   *)
(* whole state, and only the call record lastCall tells that it happened.  *)
(***************************************************************************)
EXTENDS Integers, Sequences, FiniteSets, TLC

----------------------------------------------------------------------------
(* Principals *)

Admin  == "admin"    \* the deployer: owner() of the three contracts
Agent  == "agent"    \* the off-chain decision agent / yield updater
Engine == "engine"   \* the address of the RebalancingEngine contract
Users  == {"alice", "bob"}

----------------------------------------------------------------------------
(* Program constants *)

MAX_GAS_COST              == 20      \* 0.02 ether
PROFIT_MARGIN_REQUIREMENT == 1150
REBALANCE_COOLDOWN        == 3600    \* 1 hours
MAX_STALENESS             == 3600
MIN_TVL_THRESHOLD         == 1       \* 1000000 * 1e18
BATCH_MIN_TVL             == 50      \* 50000000 * 1e18
MIN_DEPOSIT               == 10      \* 0.01 ether
MIN_YIELD_IMPROVEMENT     == 50
MAX_GAS_THRESHOLD         == 20      \* 0.02 ether
INITIAL_YIELD             == 320
MAX_APY                   == 50000
BASE_GAS_COST             == 5       \* 0.005 ether
CURVE_GAS_COST            == 3       \* 0.003 ether
YEARN_GAS_COST            == 2       \* 0.002 ether

(* The enum PortfolioManager.RiskProfile, as the uint8 the calls carry *)
CONSERVATIVE == 0
BALANCED     == 1
AGGRESSIVE   == 2

----------------------------------------------------------------------------
(* Bounds of the model *)

MaxTime     == 3600   \* block.timestamp stops here
TimeStep    == 3600   \* seconds between two blocks
MaxValue    == 10000  \* a deposit that would lift totalValue above is not tried
MaxRequests == 2      \* requestCounter stops here
MaxHistory  == 1      \* updateYield is not tried on a longer history
MaxProtocols == 10    \* addProtocol is not tried on a longer list
StaleTime   == 7200   \* block.timestamp stops here where records go stale
MaxArchive  == 2      \* the longer history tried where records are refreshed
MaxAveraged == 3      \* requestCounter stops here where the average is followed
HistoryLimit == 3     \* the longest history tried where the history is read back
HistoryCapacity == 2  \* the capacity a bounded history is tried against

NoId == 0 - 1

VARIABLES
    now,                    \* block.timestamp
    portfolios,             \* PortfolioManager.portfolios
    authorizedRebalancers,  \* PortfolioManager.authorizedRebalancers
    ledgerPaused,           \* PortfolioManager: Pausable._paused
    ledgerBalance,          \* address(PortfolioManager).balance
    rebalanceRequests,      \* RebalancingEngine.rebalanceRequests
    userRebalanceHistory,   \* RebalancingEngine.userRebalanceHistory
    authorizedAIEngines,    \* RebalancingEngine.authorizedAIEngines
    metrics,                \* RebalancingEngine.metrics
    requestCounter,         \* RebalancingEngine.requestCounter
    enginePaused,           \* RebalancingEngine: Pausable._paused
    protocolYields,         \* YieldOracle.protocolYields
    yieldHistory,           \* YieldOracle.yieldHistory
    supportedProtocols,     \* YieldOracle.supportedProtocols
    authorizedUpdaters,     \* YieldOracle.authorizedUpdaters
    oraclePaused,           \* YieldOracle: Pausable._paused
    created,                \* owners with a PortfolioCreated event so far
    netDeposits,            \* per owner, the amounts of the PortfolioCreated and
                            \* FundsDeposited events minus those of FundsWithdrawn
    lastCall                \* the last transaction: who called what, and how it ended

ledgerVars == <<portfolios, authorizedRebalancers, ledgerPaused, ledgerBalance,
                created, netDeposits>>
engineVars == <<rebalanceRequests, userRebalanceHistory, authorizedAIEngines,
                metrics, requestCounter, enginePaused>>
oracleVars == <<protocolYields, yieldHistory, supportedProtocols,
                authorizedUpdaters, oraclePaused>>
vars == <<now, ledgerVars, engineVars, oracleVars, lastCall>>

----------------------------------------------------------------------------
(* Call records and events *)

Event(name, user, id, amount, profit, text) ==
    [name |-> name, user |-> user, id |-> id, amount |-> amount,
     profit |-> profit, text |-> text]

(* err = "" is a return; anything else is the revert reason.  A reverted    *)
(* transaction emits no event.                                             *)
Call(op, caller, user, id, amt, err, events) ==
    [op |-> op, caller |-> caller, user |-> user, id |-> id, amt |-> amt,
     ok |-> (err = ""), err |-> err,
     events |-> IF err = "" THEN events ELSE <<>>]

(* A call of a view function: its arguments and what it returned *)
ViewCall(op, caller, user, args, ret) ==
    [op |-> op, caller |-> caller, user |-> user, id |-> NoId, amt |-> 0,
     ok |-> TRUE, err |-> "", events |-> <<>>, args |-> args, ret |-> ret]

Panic == "Panic(0x11)"   \* checked arithmetic of Solidity 0.8: not an Error(string)

----------------------------------------------------------------------------
(* PortfolioManager *)

NoPortfolio ==
    [totalValue |-> 0, currentYield |-> 0, currentProtocol |-> "",
     riskProfile |-> CONSERVATIVE, autoRebalanceEnabled |-> FALSE,
     lastRebalance |-> 0, totalProfit |-> 0]

(* checkRebalanceProfitability without the minimum yield improvement *)
checkRebalanceProfitabilityAnyGain(p, user, newYield, gasCost) ==
    LET portfolio == p[user] IN
    IF newYield <= portfolio.currentYield
    THEN FALSE
    ELSE LET yieldImprovement == newYield - portfolio.currentYield
             annualProfit == (portfolio.totalValue * yieldImprovement) \div 10000
             requiredProfit == (gasCost * 115) \div 100
         IN  annualProfit >= requiredProfit

checkRebalanceProfitability(p, user, newYield, gasCost) ==
    LET portfolio == p[user] IN
    IF newYield <= portfolio.currentYield + MIN_YIELD_IMPROVEMENT
    THEN FALSE
    ELSE LET yieldImprovement == newYield - portfolio.currentYield
             annualProfit == (portfolio.totalValue * yieldImprovement) \div 10000
             requiredProfit == (gasCost * 115) \div 100
         IN  annualProfit >= requiredProfit

createPortfolioErr(sender, value, riskProfile) ==
    IF ledgerPaused THEN "Pausable: paused"
    ELSE IF value < MIN_DEPOSIT THEN "Minimum deposit required"
    ELSE IF riskProfile > 2 THEN "Invalid risk profile"
    ELSE IF portfolios[sender].totalValue # 0 THEN "Portfolio already exists"
    ELSE ""

createPortfolio(sender, value, riskProfile) ==
    LET err == createPortfolioErr(sender, value, riskProfile) IN
    /\ lastCall' = Call("createPortfolio", sender, sender, NoId, value, err,
                        <<Event("PortfolioCreated", sender, NoId, value, 0, "")>>)
    /\ IF err = ""
       THEN /\ portfolios' = [portfolios EXCEPT ![sender] =
                   [totalValue |-> value, currentYield |-> INITIAL_YIELD,
                    currentProtocol |-> "Aave", riskProfile |-> riskProfile,
                    autoRebalanceEnabled |-> TRUE, lastRebalance |-> now,
                    totalProfit |-> 0]]
            /\ ledgerBalance' = ledgerBalance + value
            /\ created' = created \cup {sender}
            /\ netDeposits' = [netDeposits EXCEPT ![sender] = @ + value]
            /\ UNCHANGED <<authorizedRebalancers, ledgerPaused>>
       ELSE UNCHANGED ledgerVars
    /\ UNCHANGED <<now, engineVars, oracleVars>>

depositFundsErr(sender, value) ==
    IF ledgerPaused THEN "Pausable: paused"
    ELSE IF ~(portfolios[sender].totalValue > 0) THEN "Portfolio does not exist"
    ELSE IF ~(value > 0) THEN "Amount must be greater than 0"
    ELSE ""

depositFunds(sender, value) ==
    LET err == depositFundsErr(sender, value) IN
    /\ lastCall' = Call("depositFunds", sender, sender, NoId, value, err,
                        <<Event("FundsDeposited", sender, NoId, value, 0, "")>>)
    /\ IF err = ""
       THEN /\ portfolios' = [portfolios EXCEPT ![sender].totalValue = @ + value]
            /\ ledgerBalance' = ledgerBalance + value
            /\ netDeposits' = [netDeposits EXCEPT ![sender] = @ + value]
            /\ UNCHANGED <<authorizedRebalancers, ledgerPaused, created>>
       ELSE UNCHANGED ledgerVars
    /\ UNCHANGED <<now, engineVars, oracleVars>>

(* withdrawFunds without require(amount > 0) *)
withdrawFundsErrZeroAllowed(sender, amount) ==
    IF ledgerPaused THEN "Pausable: paused"
    ELSE IF ~(portfolios[sender].totalValue >= amount) THEN "Insufficient balance"
    ELSE IF ledgerBalance < amount THEN "Transfer failed"
    ELSE ""

(* msg.sender.call{value: amount}(""): the recipient is an externally owned *)
(* account, so the transfer fails only when the ledger holds too little.    *)
withdrawFundsErr(sender, amount) ==
    IF ledgerPaused THEN "Pausable: paused"
    ELSE IF ~(portfolios[sender].totalValue >= amount) THEN "Insufficient balance"
    ELSE IF ~(amount > 0) THEN "Amount must be greater than 0"
    ELSE IF ledgerBalance < amount THEN "Transfer failed"
    ELSE ""

withdrawFunds(sender, amount) ==
    LET err == withdrawFundsErr(sender, amount) IN
    /\ lastCall' = Call("withdrawFunds", sender, sender, NoId, amount, err,
                        <<Event("FundsWithdrawn", sender, NoId, amount, 0, "")>>)
    /\ IF err = ""
       THEN /\ portfolios' = [portfolios EXCEPT ![sender].totalValue = @ - amount]
            /\ ledgerBalance' = ledgerBalance - amount
            /\ netDeposits' = [netDeposits EXCEPT ![sender] = @ - amount]
            /\ UNCHANGED <<authorizedRebalancers, ledgerPaused, created>>
       ELSE UNCHANGED ledgerVars
    /\ UNCHANGED <<now, engineVars, oracleVars>>

(* ReentrancyGuard.nonReentrant left open: it lets a nested call in *)
nonReentrantErrOpen(entered) == ""

(* ReentrancyGuard.nonReentrant: _status is _ENTERED while a guarded         *)
(* function of the ledger runs                                               *)
nonReentrantErr(entered) ==
    IF entered THEN "ReentrancyGuard: reentrant call" ELSE ""

(* A call the recipient makes back into the ledger from its receive          *)
(* function, while withdrawFunds is inside msg.sender.call: value and        *)
(* balance are the recipient's totalValue and the ledger's funds at that     *)
(* point.  createPortfolio carries no nonReentrant; the pause is off, the    *)
(* outer call having passed whenNotPaused.                                   *)
nestedCallErr(nested, value, balance) ==
    IF nested.op = "withdrawFunds"
    THEN IF nonReentrantErr(TRUE) # "" THEN nonReentrantErr(TRUE)
         ELSE IF ~(value >= nested.amt) THEN "Insufficient balance"
         ELSE IF ~(nested.amt > 0) THEN "Amount must be greater than 0"
         ELSE IF balance < nested.amt THEN "Transfer failed"
         ELSE ""
    ELSE IF nested.op = "depositFunds"
    THEN IF nonReentrantErr(TRUE) # "" THEN nonReentrantErr(TRUE)
         ELSE IF ~(value > 0) THEN "Portfolio does not exist"
         ELSE IF ~(nested.amt > 0) THEN "Amount must be greater than 0"
         ELSE ""
    ELSE IF nested.amt < MIN_DEPOSIT THEN "Minimum deposit required"
    ELSE IF value # 0 THEN "Portfolio already exists"
    ELSE ""

(* withdrawFunds paying a contract whose receive function calls back into    *)
(* the ledger once; the recipient either lets a revert of its nested call    *)
(* fail the transfer or swallows it.  totalValue is decreased before the     *)
(* transfer (line 955 before line 957).                                      *)
withdrawFundsReentered(sender, amount, nested, swallow) ==
    LET pre == withdrawFundsErr(sender, amount)
        value == portfolios[sender].totalValue - amount
        balance == ledgerBalance - amount
        nestedErr == IF pre = "" THEN nestedCallErr(nested, value, balance)
                     ELSE "not called"
        err == IF pre # "" THEN pre
               ELSE IF nestedErr # "" /\ ~swallow THEN "Transfer failed"
               ELSE ""
        delta == IF nestedErr # "" THEN 0
                 ELSE IF nested.op = "withdrawFunds" THEN 0 - nested.amt
                 ELSE nested.amt
        nestedEvents ==
            IF nestedErr # "" THEN <<>>
            ELSE IF nested.op = "withdrawFunds"
                 THEN <<Event("FundsWithdrawn", sender, NoId, nested.amt, 0, "")>>
            ELSE IF nested.op = "depositFunds"
                 THEN <<Event("FundsDeposited", sender, NoId, nested.amt, 0, "")>>
            ELSE <<Event("PortfolioCreated", sender, NoId, nested.amt, 0, "")>>
    IN
    /\ lastCall' = Call("withdrawFunds", sender, sender, NoId, amount, err,
                        nestedEvents \o <<Event("FundsWithdrawn", sender, NoId, amount, 0, "")>>)
                   @@ [args |-> <<nested.op, nested.amt, swallow>>, ret |-> nestedErr]
    /\ IF err = ""
       THEN /\ portfolios' = [portfolios EXCEPT ![sender] =
                   IF nestedErr = "" /\ nested.op = "createPortfolio"
                   THEN [totalValue |-> nested.amt, currentYield |-> INITIAL_YIELD,
                         currentProtocol |-> "Aave", riskProfile |-> BALANCED,
                         autoRebalanceEnabled |-> TRUE, lastRebalance |-> now,
                         totalProfit |-> 0]
                   ELSE [@ EXCEPT !.totalValue = value + delta]]
            /\ ledgerBalance' = balance + delta
            /\ netDeposits' = [netDeposits EXCEPT ![sender] = @ - amount + delta]
            /\ UNCHANGED <<authorizedRebalancers, ledgerPaused, created>>
       ELSE UNCHANGED ledgerVars
    /\ UNCHANGED <<now, engineVars, oracleVars>>

updateRiskProfileErr(sender, newProfile) ==
    IF ledgerPaused THEN "Pausable: paused"
    ELSE IF newProfile > 2 THEN "Invalid risk profile"
    ELSE IF ~(portfolios[sender].totalValue > 0) THEN "Portfolio does not exist"
    ELSE ""

updateRiskProfile(sender, newProfile) ==
    LET err == updateRiskProfileErr(sender, newProfile) IN
    /\ lastCall' = Call("updateRiskProfile", sender, sender, NoId, newProfile, err,
                        <<Event("RiskProfileUpdated", sender, NoId, newProfile, 0, "")>>)
    /\ IF err = ""
       THEN /\ portfolios' = [portfolios EXCEPT ![sender].riskProfile = newProfile]
            /\ UNCHANGED <<authorizedRebalancers, ledgerPaused, ledgerBalance,
                           created, netDeposits>>
       ELSE UNCHANGED ledgerVars
    /\ UNCHANGED <<now, engineVars, oracleVars>>

toggleAutoRebalanceErr(sender) ==
    IF ledgerPaused THEN "Pausable: paused"
    ELSE IF ~(portfolios[sender].totalValue > 0) THEN "Portfolio does not exist"
    ELSE ""

toggleAutoRebalance(sender) ==
    LET err == toggleAutoRebalanceErr(sender) IN
    /\ lastCall' = Call("toggleAutoRebalance", sender, sender, NoId, 0, err,
                        <<Event("AutoRebalanceToggled", sender, NoId, 0, 0, "")>>)
    /\ IF err = ""
       THEN /\ portfolios' = [portfolios EXCEPT
                   ![sender].autoRebalanceEnabled = ~portfolios[sender].autoRebalanceEnabled]
            /\ UNCHANGED <<authorizedRebalancers, ledgerPaused, ledgerBalance,
                           created, netDeposits>>
       ELSE UNCHANGED ledgerVars
    /\ UNCHANGED <<now, engineVars, oracleVars>>

(* PortfolioManager.executeRebalance crediting the annual profit to         *)
(* totalValue                                                               *)
ledgerExecuteRebalanceCrediting(p, sender, user, toProtocol, expectedYield, gasCost) ==
    IF ~(sender \in authorizedRebalancers) THEN [err |-> "Not authorized rebalancer", p |-> p]
    ELSE IF ledgerPaused THEN [err |-> "Pausable: paused", p |-> p]
    ELSE IF ~(p[user].totalValue > 0) THEN [err |-> "Portfolio does not exist", p |-> p]
    ELSE IF ~p[user].autoRebalanceEnabled THEN [err |-> "Auto-rebalance disabled", p |-> p]
    ELSE IF ~(gasCost <= MAX_GAS_THRESHOLD) THEN [err |-> "Gas cost too high", p |-> p]
    ELSE IF ~checkRebalanceProfitability(p, user, expectedYield, gasCost)
         THEN [err |-> "Rebalancing not profitable", p |-> p]
    ELSE LET annualProfit ==
                 (p[user].totalValue * (expectedYield - p[user].currentYield)) \div 10000
         IN  IF annualProfit - gasCost < 0
             THEN [err |-> Panic, p |-> p]
             ELSE [err |-> "",
                   p |-> [p EXCEPT ![user].currentProtocol = toProtocol,
                                   ![user].currentYield = expectedYield,
                                   ![user].lastRebalance = now,
                                   ![user].totalValue = @ + annualProfit,
                                   ![user].totalProfit = @ + annualProfit - gasCost]]

(* PortfolioManager.executeRebalance as a function of the ledger state: the *)
(* revert reason ("" when it returns) and the portfolios it leaves.  The     *)
(* statements run in the order of the source: currentYield is overwritten    *)
(* before yieldDifference reads it; sub() is the checked a - b.              *)
ledgerExecuteRebalance(p, sender, user, toProtocol, expectedYield, gasCost) ==
    IF ~(sender \in authorizedRebalancers) THEN [err |-> "Not authorized rebalancer", p |-> p]
    ELSE IF ledgerPaused THEN [err |-> "Pausable: paused", p |-> p]
    ELSE IF ~(p[user].totalValue > 0) THEN [err |-> "Portfolio does not exist", p |-> p]
    ELSE IF ~p[user].autoRebalanceEnabled THEN [err |-> "Auto-rebalance disabled", p |-> p]
    ELSE IF ~(gasCost <= MAX_GAS_THRESHOLD) THEN [err |-> "Gas cost too high", p |-> p]
    ELSE IF ~checkRebalanceProfitability(p, user, expectedYield, gasCost)
         THEN [err |-> "Rebalancing not profitable", p |-> p]
    ELSE LET p1 == [p EXCEPT ![user].currentProtocol = toProtocol,
                             ![user].currentYield = expectedYield,
                             ![user].lastRebalance = now]
             yieldDifference == expectedYield - p1[user].currentYield
             annualProfit == (p1[user].totalValue * yieldDifference) \div 10000
             netProfit == annualProfit - gasCost
         IN  IF yieldDifference < 0 \/ netProfit < 0
             THEN [err |-> Panic, p |-> p]
             ELSE [err |-> "",
                   p |-> [p1 EXCEPT ![user].totalProfit = @ + netProfit]]

(* checkRebalanceProfitability called from outside: a view, it writes nothing *)
checkRebalanceProfitabilityCall(sender, user, newYield, gasCost) ==
    /\ lastCall' = ViewCall("checkRebalanceProfitability", sender, user,
                            <<newYield, gasCost>>,
                            checkRebalanceProfitability(portfolios, user, newYield, gasCost))
    /\ UNCHANGED <<now, ledgerVars, engineVars, oracleVars>>

authorizeRebalancer(sender, aiEngine, authorized) ==
    LET err == IF sender # Admin THEN "Ownable: caller is not the owner" ELSE "" IN
    /\ lastCall' = Call("authorizeRebalancer", sender, aiEngine, NoId, 0, err, <<>>)
    /\ IF err = ""
       THEN /\ authorizedRebalancers' = IF authorized
                                        THEN authorizedRebalancers \cup {aiEngine}
                                        ELSE authorizedRebalancers \ {aiEngine}
            /\ UNCHANGED <<portfolios, ledgerPaused, ledgerBalance, created, netDeposits>>
       ELSE UNCHANGED ledgerVars
    /\ UNCHANGED <<now, engineVars, oracleVars>>

(* Pausable._pause is whenNotPaused and _unpause is whenPaused *)
ledgerPauseErr(sender, pausing) ==
    IF sender # Admin THEN "Ownable: caller is not the owner"
    ELSE IF pausing /\ ledgerPaused THEN "Pausable: paused"
    ELSE IF ~pausing /\ ~ledgerPaused THEN "Pausable: not paused"
    ELSE ""

ledgerPause(sender, pausing) ==
    LET err == ledgerPauseErr(sender, pausing) IN
    /\ lastCall' = Call(IF pausing THEN "ledger.pause" ELSE "ledger.unpause",
                        sender, "", NoId, 0, err, <<>>)
    /\ IF err = ""
       THEN /\ ledgerPaused' = pausing
            /\ UNCHANGED <<portfolios, authorizedRebalancers, ledgerBalance,
                           created, netDeposits>>
       ELSE UNCHANGED ledgerVars
    /\ UNCHANGED <<now, engineVars, oracleVars>>

(* owner().call{value: address(this).balance}(""): no pause check in the source *)
emergencyWithdraw(sender) ==
    LET err == IF sender # Admin THEN "Ownable: caller is not the owner" ELSE "" IN
    /\ lastCall' = Call("emergencyWithdraw", sender, "", NoId, ledgerBalance, err, <<>>)
    /\ IF err = ""
       THEN /\ ledgerBalance' = 0
            /\ UNCHANGED <<portfolios, authorizedRebalancers, ledgerPaused,
                           created, netDeposits>>
       ELSE UNCHANGED ledgerVars
    /\ UNCHANGED <<now, engineVars, oracleVars>>

----------------------------------------------------------------------------
(* YieldOracle *)

ConstructorProtocols ==
    << <<"Aave", 2>>, <<"Compound", 2>>, <<"Curve", 3>>, <<"Uniswap", 4>>,
       <<"Yearn", 3>>, <<"Convex", 4>>, <<"Lido", 2>>, <<"Rocket Pool", 3>> >>

ProtocolNames == {ConstructorProtocols[i][1] : i \in 1..Len(ConstructorProtocols)}
                 \cup {"Pendle"}

constructorRisk(n) ==
    ConstructorProtocols[CHOOSE i \in 1..Len(ConstructorProtocols) :
                             ConstructorProtocols[i][1] = n][2]

NoYieldData == [apy |-> 0, tvl |-> 0, riskScore |-> 0, timestamp |-> 0, active |-> FALSE]

(* a record counted stale already when it is exactly MAX_STALENESS old *)
_isStaleDataAtLimit(timestamp) == now - timestamp >= MAX_STALENESS

_isStaleData(timestamp) == now - timestamp > MAX_STALENESS

RECURSIVE bestYieldFrom(_, _, _, _)
bestYieldFrom(i, riskProfile, minTvl, top) ==
    IF i > Len(supportedProtocols) THEN top
    ELSE LET protocol == supportedProtocols[i]
             data == protocolYields[protocol]
         IN  IF /\ data.active
                /\ data.riskScore <= riskProfile
                /\ data.tvl >= minTvl
                /\ data.apy > top.bestYield
                /\ ~_isStaleData(data.timestamp)
             THEN bestYieldFrom(i + 1, riskProfile, minTvl,
                      [bestProtocol |-> protocol, bestYield |-> data.apy,
                       riskScore |-> data.riskScore])
             ELSE bestYieldFrom(i + 1, riskProfile, minTvl, top)

getBestYieldForRiskErr(riskProfile) ==
    IF ~(riskProfile >= 1 /\ riskProfile <= 10) THEN "Invalid risk profile" ELSE ""

getBestYieldForRisk(riskProfile, minTvl) ==
    bestYieldFrom(1, riskProfile, minTvl,
                  [bestProtocol |-> "", bestYield |-> 0, riskScore |-> 0])

(* updateYield without require(_tvl >= MIN_TVL_THRESHOLD) *)
updateYieldErrAnyTvl(sender, protocol, apy, tvl, riskScore) ==
    IF ~(sender \in authorizedUpdaters \/ sender = Admin) THEN "Not authorized"
    ELSE IF ~protocolYields[protocol].active THEN "Protocol not active"
    ELSE IF oraclePaused THEN "Pausable: paused"
    ELSE IF ~(riskScore >= 1 /\ riskScore <= 10) THEN "Invalid risk score"
    ELSE IF ~(apy <= MAX_APY) THEN "APY too high (>500%)"
    ELSE ""

updateYieldErr(sender, protocol, apy, tvl, riskScore) ==
    IF ~(sender \in authorizedUpdaters \/ sender = Admin) THEN "Not authorized"
    ELSE IF ~protocolYields[protocol].active THEN "Protocol not active"
    ELSE IF oraclePaused THEN "Pausable: paused"
    ELSE IF ~(riskScore >= 1 /\ riskScore <= 10) THEN "Invalid risk score"
    ELSE IF ~(apy <= MAX_APY) THEN "APY too high (>500%)"
    ELSE IF ~(tvl >= MIN_TVL_THRESHOLD) THEN "TVL below minimum"
    ELSE ""

updateYieldWithin(limit, sender, protocol, apy, tvl, riskScore) ==
    LET err == updateYieldErr(sender, protocol, apy, tvl, riskScore)
        yieldData == protocolYields[protocol]
    IN
    /\ Len(yieldHistory[protocol]) < limit
    /\ lastCall' = Call("updateYield", sender, protocol, NoId, apy, err,
                        <<Event("YieldUpdated", protocol, NoId, apy, now, "")>>)
                   @@ [args |-> <<apy, tvl, riskScore>>]
    /\ IF err = ""
       THEN /\ yieldHistory' = [yieldHistory EXCEPT ![protocol] =
                   Append(@, [apy |-> yieldData.apy, timestamp |-> yieldData.timestamp])]
            /\ protocolYields' = [protocolYields EXCEPT ![protocol] =
                   [@ EXCEPT !.apy = apy, !.tvl = tvl, !.riskScore = riskScore,
                             !.timestamp = now]]
            /\ UNCHANGED <<supportedProtocols, authorizedUpdaters, oraclePaused>>
       ELSE UNCHANGED oracleVars
    /\ UNCHANGED <<now, ledgerVars, engineVars>>

(* getBestYieldForRisk called from outside: a view, it writes nothing *)
getBestYieldForRiskCall(sender, riskProfile, minTvl) ==
    LET err == getBestYieldForRiskErr(riskProfile) IN
    /\ lastCall' = [ViewCall("getBestYieldForRisk", sender, "", <<riskProfile, minTvl>>,
                             IF err = "" THEN getBestYieldForRisk(riskProfile, minTvl)
                             ELSE [bestProtocol |-> "", bestYield |-> 0, riskScore |-> 0])
                    EXCEPT !.ok = (err = ""), !.err = err]
    /\ UNCHANGED <<now, ledgerVars, engineVars, oracleVars>>

(* getYieldHistory: the last min(limit, length) entries, the most recent    *)
(* first; a view, it writes nothing                                          *)
getYieldHistory(protocol, limit) ==
    LET history == yieldHistory[protocol]
        length == IF Len(history) > limit THEN limit ELSE Len(history)
    IN  [apys |-> [i \in 1..length |-> history[Len(history) - (i - 1)].apy],
         timestamps |-> [i \in 1..length |-> history[Len(history) - (i - 1)].timestamp]]

getYieldHistoryCall(sender, protocol, limit) ==
    /\ lastCall' = ViewCall("getYieldHistory", sender, protocol, <<limit>>,
                            getYieldHistory(protocol, limit))
    /\ UNCHANGED <<now, ledgerVars, engineVars, oracleVars>>

_addProtocolErr(protocol, riskScore) ==
    IF protocol = "" THEN "Empty protocol name"
    ELSE IF ~(riskScore >= 1 /\ riskScore <= 10) THEN "Invalid risk score"
    ELSE IF ~(~protocolYields[protocol].active) THEN "Protocol already exists"
    ELSE ""

addProtocolErr(sender, protocol, riskScore) ==
    IF sender # Admin THEN "Ownable: caller is not the owner"
    ELSE _addProtocolErr(protocol, riskScore)

addProtocol(sender, protocol, riskScore) ==
    LET err == addProtocolErr(sender, protocol, riskScore) IN
    /\ Len(supportedProtocols) < MaxProtocols
    /\ lastCall' = Call("addProtocol", sender, protocol, NoId, riskScore, err,
                        <<Event("ProtocolAdded", protocol, NoId, riskScore, 0, "")>>)
    /\ IF err = ""
       THEN /\ protocolYields' = [protocolYields EXCEPT ![protocol] =
                   [apy |-> 0, tvl |-> 0, riskScore |-> riskScore,
                    timestamp |-> now, active |-> TRUE]]
            /\ supportedProtocols' = Append(supportedProtocols, protocol)
            /\ UNCHANGED <<yieldHistory, authorizedUpdaters, oraclePaused>>
       ELSE UNCHANGED oracleVars
    /\ UNCHANGED <<now, ledgerVars, engineVars>>

deactivateProtocolErr(sender, protocol) ==
    IF sender # Admin THEN "Ownable: caller is not the owner"
    ELSE IF ~protocolYields[protocol].active THEN "Protocol already inactive"
    ELSE ""

deactivateProtocol(sender, protocol, reason) ==
    LET err == deactivateProtocolErr(sender, protocol) IN
    /\ lastCall' = Call("deactivateProtocol", sender, protocol, NoId, 0, err,
                        <<Event("ProtocolDeactivated", protocol, NoId, 0, 0, reason)>>)
    /\ IF err = ""
       THEN /\ protocolYields' = [protocolYields EXCEPT ![protocol].active = FALSE]
            /\ UNCHANGED <<yieldHistory, supportedProtocols, authorizedUpdaters,
                           oraclePaused>>
       ELSE UNCHANGED oracleVars
    /\ UNCHANGED <<now, ledgerVars, engineVars>>

updateYield(sender, protocol, apy, tvl, riskScore) ==
    updateYieldWithin(MaxHistory, sender, protocol, apy, tvl, riskScore)

authorizeUpdater(sender, updater, authorized) ==
    LET err == IF sender # Admin THEN "Ownable: caller is not the owner" ELSE "" IN
    /\ lastCall' = Call("authorizeUpdater", sender, updater, NoId, 0, err,
                        <<Event("UpdaterAuthorized", updater, NoId, 0, 0, "")>>)
    /\ IF err = ""
       THEN /\ authorizedUpdaters' = IF authorized
                                     THEN authorizedUpdaters \cup {updater}
                                     ELSE authorizedUpdaters \ {updater}
            /\ UNCHANGED <<protocolYields, yieldHistory, supportedProtocols, oraclePaused>>
       ELSE UNCHANGED oracleVars
    /\ UNCHANGED <<now, ledgerVars, engineVars>>

oraclePauseErr(sender, pausing) ==
    IF sender # Admin THEN "Ownable: caller is not the owner"
    ELSE IF pausing /\ oraclePaused THEN "Pausable: paused"
    ELSE IF ~pausing /\ ~oraclePaused THEN "Pausable: not paused"
    ELSE ""

oraclePause(sender, pausing) ==
    LET err == oraclePauseErr(sender, pausing) IN
    /\ lastCall' = Call(IF pausing THEN "oracle.pause" ELSE "oracle.unpause",
                        sender, "", NoId, 0, err, <<>>)
    /\ IF err = ""
       THEN /\ oraclePaused' = pausing
            /\ UNCHANGED <<protocolYields, yieldHistory, supportedProtocols,
                           authorizedUpdaters>>
       ELSE UNCHANGED oracleVars
    /\ UNCHANGED <<now, ledgerVars, engineVars>>

----------------------------------------------------------------------------
(* RebalancingEngine *)

NoRequest ==
    [user |-> "", fromProtocol |-> "", toProtocol |-> "", amount |-> 0,
     expectedYield |-> 0, estimatedGas |-> 0, timestamp |-> 0,
     executed |-> FALSE, cancelled |-> FALSE]

(* What one transaction of the engine reads and writes, threaded through    *)
(* the calls it makes: portfolios, requests, histories, counter, metrics    *)
(* and the events emitted so far.                                           *)
World ==
    [p |-> portfolios, r |-> rebalanceRequests, h |-> userRebalanceHistory,
     c |-> requestCounter, m |-> metrics, ev |-> <<>>]

onlyAuthorizedAI(sender) == sender \in authorizedAIEngines \/ sender = Admin

(* validRequest without its check of the cancelled flag *)
validRequestErrCancelledPasses(w, requestId) ==
    IF ~(requestId < w.c) THEN "Invalid request ID"
    ELSE IF w.r[requestId].executed THEN "Request already executed"
    ELSE ""

validRequestErr(w, requestId) ==
    IF ~(requestId < w.c) THEN "Invalid request ID"
    ELSE IF w.r[requestId].executed THEN "Request already executed"
    ELSE IF w.r[requestId].cancelled THEN "Request cancelled"
    ELSE ""

_isProfitableRebalance(user, currentYield, newYield, gasCost, portfolioValue) ==
    IF newYield <= currentYield
    THEN FALSE
    ELSE LET yieldImprovement == newYield - currentYield
             annualProfit == (portfolioValue * yieldImprovement) \div 10000
             requiredProfit == (gasCost * PROFIT_MARGIN_REQUIREMENT) \div 1000
         IN  annualProfit >= requiredProfit

_calculateProfit(currentYield, newYield, portfolioValue, gasCost) ==
    IF newYield <= currentYield
    THEN 0
    ELSE LET yieldImprovement == newYield - currentYield
             annualProfit == (portfolioValue * yieldImprovement) \div 10000
         IN  IF annualProfit > gasCost THEN annualProfit - gasCost ELSE 0

_updateMetrics(m, request, oldYield) ==
    LET totalRebalances == m.totalRebalances + 1
        profit == _calculateProfit(oldYield, request.expectedYield,
                                   request.amount, request.estimatedGas)
        yieldImprovement == IF request.expectedYield > oldYield
                            THEN request.expectedYield - oldYield ELSE 0
    IN  [m EXCEPT !.totalRebalances = totalRebalances,
                  !.totalProfitGenerated = @ + profit,
                  !.averageYieldImprovement =
                      (@ * (totalRebalances - 1) + yieldImprovement) \div totalRebalances]

_mapRiskProfile(portfolioRisk) ==
    IF portfolioRisk = 1 THEN 3
    ELSE IF portfolioRisk = 2 THEN 5
    ELSE IF portfolioRisk = 3 THEN 8
    ELSE 5

(* _estimateGasCost looking at the from leg only *)
_estimateGasCostFromLeg(fromProtocol, toProtocol) ==
    LET curve == IF fromProtocol = "Curve" THEN CURVE_GAS_COST ELSE 0
        yearn == IF fromProtocol = "Yearn" THEN YEARN_GAS_COST ELSE 0
    IN  BASE_GAS_COST + curve + yearn

_estimateGasCost(fromProtocol, toProtocol) ==
    LET curve == IF fromProtocol = "Curve" \/ toProtocol = "Curve"
                 THEN CURVE_GAS_COST ELSE 0
        yearn == IF fromProtocol = "Yearn" \/ toProtocol = "Yearn"
                 THEN YEARN_GAS_COST ELSE 0
    IN  BASE_GAS_COST + curve + yearn

(* the cooldown counted only from a request that was not cancelled *)
cooldownActiveUnlessCancelled(w, user) ==
    LET userHistory == w.h[user] IN
    /\ Len(userHistory) > 0
    /\ ~w.r[userHistory[Len(userHistory)]].cancelled
    /\ ~(now - w.r[userHistory[Len(userHistory)]].timestamp >= REBALANCE_COOLDOWN)

cooldownActive(w, user) ==
    LET userHistory == w.h[user] IN
    /\ Len(userHistory) > 0
    /\ ~(now - w.r[userHistory[Len(userHistory)]].timestamp >= REBALANCE_COOLDOWN)

(* requestRebalance without require(autoEnabled) *)
requestRebalanceErrAutoOff(w, sender, user, fromProtocol, toProtocol, expectedYield, estimatedGas) ==
    IF ~onlyAuthorizedAI(sender) THEN "Not authorized AI engine"
    ELSE IF enginePaused THEN "Pausable: paused"
    ELSE IF ~(estimatedGas <= MAX_GAS_COST) THEN "Gas cost too high"
    ELSE IF fromProtocol = "" THEN "Empty from protocol"
    ELSE IF toProtocol = "" THEN "Empty to protocol"
    ELSE IF ~(w.p[user].totalValue > 0) THEN "Empty portfolio"
    ELSE IF w.p[user].currentProtocol # fromProtocol THEN "From protocol mismatch"
    ELSE IF ~_isProfitableRebalance(user, w.p[user].currentYield, expectedYield,
                                    estimatedGas, w.p[user].totalValue)
         THEN "Rebalancing not profitable"
    ELSE IF cooldownActive(w, user) THEN "Cooldown period active"
    ELSE ""

requestRebalanceErr(w, sender, user, fromProtocol, toProtocol, expectedYield, estimatedGas) ==
    IF ~onlyAuthorizedAI(sender) THEN "Not authorized AI engine"
    ELSE IF enginePaused THEN "Pausable: paused"
    ELSE IF ~(estimatedGas <= MAX_GAS_COST) THEN "Gas cost too high"
    ELSE IF fromProtocol = "" THEN "Empty from protocol"
    ELSE IF toProtocol = "" THEN "Empty to protocol"
    ELSE IF ~w.p[user].autoRebalanceEnabled THEN "Auto-rebalance disabled"
    ELSE IF ~(w.p[user].totalValue > 0) THEN "Empty portfolio"
    ELSE IF w.p[user].currentProtocol # fromProtocol THEN "From protocol mismatch"
    ELSE IF ~_isProfitableRebalance(user, w.p[user].currentYield, expectedYield,
                                    estimatedGas, w.p[user].totalValue)
         THEN "Rebalancing not profitable"
    ELSE IF cooldownActive(w, user) THEN "Cooldown period active"
    ELSE ""

(* requestRebalance storing the request without userRebalanceHistory.push *)
storeRequestUnindexed(w, user, fromProtocol, toProtocol, expectedYield, estimatedGas) ==
    LET requestId == w.c IN
    [w EXCEPT !.c = requestId + 1,
              !.r = [@ EXCEPT ![requestId] =
                       [user |-> user, fromProtocol |-> fromProtocol,
                        toProtocol |-> toProtocol, amount |-> w.p[user].totalValue,
                        expectedYield |-> expectedYield, estimatedGas |-> estimatedGas,
                        timestamp |-> now, executed |-> FALSE, cancelled |-> FALSE]],
              !.ev = Append(@, Event("RebalanceRequested", user, requestId,
                                     expectedYield, 0, toProtocol))]

(* The body of requestRebalance once every require has passed *)
storeRequest(w, user, fromProtocol, toProtocol, expectedYield, estimatedGas) ==
    LET requestId == w.c IN
    [w EXCEPT !.c = requestId + 1,
              !.r = [@ EXCEPT ![requestId] =
                       [user |-> user, fromProtocol |-> fromProtocol,
                        toProtocol |-> toProtocol, amount |-> w.p[user].totalValue,
                        expectedYield |-> expectedYield, estimatedGas |-> estimatedGas,
                        timestamp |-> now, executed |-> FALSE, cancelled |-> FALSE]],
              !.h = [@ EXCEPT ![user] = Append(@, requestId)],
              !.ev = Append(@, Event("RebalanceRequested", user, requestId,
                                     expectedYield, 0, toProtocol))]

(* The requires of executeRebalance that come before the ledger call *)
(* executeRebalance with validRequest placed before onlyAuthorizedAI *)
executeRebalanceErrIdFirst(w, sender, requestId) ==
    IF validRequestErr(w, requestId) # "" THEN validRequestErr(w, requestId)
    ELSE IF ~onlyAuthorizedAI(sender) THEN "Not authorized AI engine"
    ELSE IF enginePaused THEN "Pausable: paused"
    ELSE LET request == w.r[requestId]
             portfolio == w.p[request.user]
         IN  IF ~portfolio.autoRebalanceEnabled THEN "Auto-rebalance disabled"
             ELSE IF ~_isProfitableRebalance(request.user, portfolio.currentYield,
                         request.expectedYield, request.estimatedGas, portfolio.totalValue)
                  THEN "No longer profitable"
             ELSE ""

executeRebalanceErr(w, sender, requestId) ==
    IF ~onlyAuthorizedAI(sender) THEN "Not authorized AI engine"
    ELSE IF validRequestErr(w, requestId) # "" THEN validRequestErr(w, requestId)
    ELSE IF enginePaused THEN "Pausable: paused"
    ELSE LET request == w.r[requestId]
             portfolio == w.p[request.user]
         IN  IF ~portfolio.autoRebalanceEnabled THEN "Auto-rebalance disabled"
             ELSE IF ~_isProfitableRebalance(request.user, portfolio.currentYield,
                         request.expectedYield, request.estimatedGas, portfolio.totalValue)
                  THEN "No longer profitable"
             ELSE ""

(* try portfolioManager.executeRebalance(...) { ... } catch Error(string    *)
(* memory reason) { ... }: an Error(string) of the ledger is caught, a       *)
(* Panic matches no clause and reverts the caller.  The result is the       *)
(* revert reason ("" when executeRebalance returns) and the world it leaves. *)
(* executeRebalance calling _updateMetrics in the catch clause as well *)
executeRequestCountingFailures(w, requestId) ==
    LET request == w.r[requestId]
        totalValue == w.p[request.user].totalValue
        currentYield == w.p[request.user].currentYield
        res == ledgerExecuteRebalance(w.p, Engine, request.user, request.toProtocol,
                                      request.expectedYield, request.estimatedGas)
    IN  IF res.err = ""
        THEN [err |-> "",
              w |-> [w EXCEPT !.p = res.p,
                              !.r = [@ EXCEPT ![requestId].executed = TRUE],
                              !.m = _updateMetrics(w.m, request, currentYield),
                              !.ev = Append(@, Event("RebalanceExecuted", request.user,
                                         requestId, request.amount,
                                         _calculateProfit(currentYield, request.expectedYield,
                                                          totalValue, request.estimatedGas),
                                         request.toProtocol))]]
        ELSE IF res.err = Panic
        THEN [err |-> Panic, w |-> w]
        ELSE [err |-> "",
              w |-> [w EXCEPT !.r = [@ EXCEPT ![requestId].cancelled = TRUE],
                              !.m = _updateMetrics(w.m, request, currentYield),
                              !.ev = Append(@, Event("RebalanceCancelled", request.user,
                                                     requestId, 0, 0, res.err))]]

executeRequest(w, requestId) ==
    LET request == w.r[requestId]
        totalValue == w.p[request.user].totalValue
        currentYield == w.p[request.user].currentYield
        res == ledgerExecuteRebalance(w.p, Engine, request.user, request.toProtocol,
                                      request.expectedYield, request.estimatedGas)
    IN  IF res.err = ""
        THEN [err |-> "",
              w |-> [w EXCEPT !.p = res.p,
                              !.r = [@ EXCEPT ![requestId].executed = TRUE],
                              !.m = _updateMetrics(w.m, request, currentYield),
                              !.ev = Append(@, Event("RebalanceExecuted", request.user,
                                         requestId, request.amount,
                                         _calculateProfit(currentYield, request.expectedYield,
                                                          totalValue, request.estimatedGas),
                                         request.toProtocol))]]
        ELSE IF res.err = Panic
        THEN [err |-> Panic, w |-> w]
        ELSE [err |-> "",
              w |-> [w EXCEPT !.r = [@ EXCEPT ![requestId].cancelled = TRUE],
                              !.ev = Append(@, Event("RebalanceCancelled", request.user,
                                                     requestId, 0, 0, res.err))]]

(* Write a world back to the state *)
Commit(w) ==
    /\ portfolios' = w.p
    /\ rebalanceRequests' = w.r
    /\ userRebalanceHistory' = w.h
    /\ requestCounter' = w.c
    /\ metrics' = w.m

(* requestRebalance while fewer than limit requests exist *)
requestRebalanceWithin(limit, sender, user, fromProtocol, toProtocol, expectedYield, estimatedGas) ==
    LET err == requestRebalanceErr(World, sender, user, fromProtocol, toProtocol,
                                   expectedYield, estimatedGas)
        w == storeRequest(World, user, fromProtocol, toProtocol, expectedYield, estimatedGas)
    IN
    /\ requestCounter < limit
    /\ lastCall' = Call("requestRebalance", sender, user,
                        IF err = "" THEN requestCounter ELSE NoId, 0, err, w.ev)
    /\ IF err = "" THEN Commit(w)
       ELSE UNCHANGED <<portfolios, rebalanceRequests, userRebalanceHistory,
                        requestCounter, metrics>>
    /\ UNCHANGED <<now, authorizedRebalancers, ledgerPaused, ledgerBalance, created,
                   netDeposits, authorizedAIEngines, enginePaused, oracleVars>>

requestRebalance(sender, user, fromProtocol, toProtocol, expectedYield, estimatedGas) ==
    requestRebalanceWithin(MaxRequests, sender, user, fromProtocol, toProtocol,
                           expectedYield, estimatedGas)

(* executeRebalance with require(autoRebalanceEnabled) taken out of the      *)
(* engine and of the ledger: the call runs as if the flag were on and leaves *)
(* the flag as it found it                                                   *)
executeRebalanceCallIgnoringFlag(w, sender, requestId) ==
    IF ~(requestId < w.c) THEN [err |-> executeRebalanceErr(w, sender, requestId), w |-> w]
    ELSE LET user == w.r[requestId].user
             flag == w.p[user].autoRebalanceEnabled
             on == [w EXCEPT !.p[user].autoRebalanceEnabled = TRUE]
             pre == executeRebalanceErr(on, sender, requestId)
             res == executeRequest(on, requestId)
         IN  IF pre # "" THEN [err |-> pre, w |-> w]
             ELSE IF res.err # "" THEN [err |-> res.err, w |-> w]
             ELSE [err |-> "",
                   w |-> [res.w EXCEPT !.p[user].autoRebalanceEnabled = flag]]

(* executeRebalance as a call: the revert reason and the world it leaves *)
executeRebalanceCall(w, sender, requestId) ==
    LET pre == executeRebalanceErr(w, sender, requestId) IN
    IF pre # "" THEN [err |-> pre, w |-> w] ELSE executeRequest(w, requestId)

executeRebalance(sender, requestId) ==
    LET res == executeRebalanceCall(World, sender, requestId) IN
    /\ lastCall' = Call("executeRebalance", sender,
                        rebalanceRequests[requestId].user, requestId, 0, res.err, res.w.ev)
    /\ IF res.err = "" THEN Commit(res.w)
       ELSE UNCHANGED <<portfolios, rebalanceRequests, userRebalanceHistory,
                        requestCounter, metrics>>
    /\ UNCHANGED <<now, authorizedRebalancers, ledgerPaused, ledgerBalance, created,
                   netDeposits, authorizedAIEngines, enginePaused, oracleVars>>

(* cancelRebalance without the validRequest modifier *)
cancelRebalanceErrAnyRequest(w, sender, requestId) ==
    IF ~onlyAuthorizedAI(sender) THEN "Not authorized AI engine" ELSE ""

cancelRebalanceErr(w, sender, requestId) ==
    IF ~onlyAuthorizedAI(sender) THEN "Not authorized AI engine"
    ELSE validRequestErr(w, requestId)

cancelRebalance(sender, requestId, reason) ==
    LET err == cancelRebalanceErr(World, sender, requestId) IN
    /\ lastCall' = Call("cancelRebalance", sender,
                        rebalanceRequests[requestId].user, requestId, 0, err,
                        <<Event("RebalanceCancelled", rebalanceRequests[requestId].user,
                                requestId, 0, 0, reason)>>)
    /\ IF err = ""
       THEN rebalanceRequests' = [rebalanceRequests EXCEPT ![requestId].cancelled = TRUE]
       ELSE UNCHANGED rebalanceRequests
    /\ UNCHANGED <<now, ledgerVars, userRebalanceHistory, authorizedAIEngines, metrics,
                   requestCounter, enginePaused, oracleVars>>

(* One pass of the loop of batchOptimization and the passes after it.       *)
(* this.requestRebalance and this.executeRebalance are external calls made  *)
(* by the engine itself: a revert of the first is caught (catch { continue  *)
(* }), a revert of the second, made inside the success block, is not.       *)
RECURSIVE batchFrom(_, _, _, _, _)
batchFrom(w, users, i, optimizedCount, totalProfit) ==
    IF i > Len(users)
    THEN [err |-> "", w |-> w, optimizedCount |-> optimizedCount,
          totalProfit |-> totalProfit]
    ELSE LET user == users[i]
             portfolio == w.p[user]
             ceiling == _mapRiskProfile(portfolio.riskProfile)
             best == getBestYieldForRisk(ceiling, BATCH_MIN_TVL)
             estimatedGas == _estimateGasCost(portfolio.currentProtocol, best.bestProtocol)
             reqErr == requestRebalanceErr(w, Engine, user, portfolio.currentProtocol,
                           best.bestProtocol, best.bestYield, estimatedGas)
             w1 == storeRequest(w, user, portfolio.currentProtocol,
                                best.bestProtocol, best.bestYield, estimatedGas)
             res == executeRebalanceCall(w1, Engine, w.c)
             skip == batchFrom(w, users, i + 1, optimizedCount, totalProfit)
         IN  IF ~portfolio.autoRebalanceEnabled \/ portfolio.totalValue = 0 THEN skip
             ELSE IF ~(/\ best.bestProtocol # ""
                       /\ best.bestYield > portfolio.currentYield
                       /\ best.riskScore <= ceiling) THEN skip
             ELSE IF ~_isProfitableRebalance(user, portfolio.currentYield, best.bestYield,
                                             estimatedGas, portfolio.totalValue) THEN skip
             ELSE IF reqErr # "" THEN skip
             ELSE IF res.err # ""
                  THEN [err |-> res.err, w |-> w, optimizedCount |-> optimizedCount,
                        totalProfit |-> totalProfit]
             ELSE batchFrom(res.w, users, i + 1, optimizedCount + 1,
                            totalProfit + _calculateProfit(portfolio.currentYield,
                                best.bestYield, portfolio.totalValue, estimatedGas))

batchOptimizationCall(w, sender, users) ==
    IF ~onlyAuthorizedAI(sender)
    THEN [err |-> "Not authorized AI engine", w |-> w, optimizedCount |-> 0, totalProfit |-> 0]
    ELSE IF enginePaused
    THEN [err |-> "Pausable: paused", w |-> w, optimizedCount |-> 0, totalProfit |-> 0]
    ELSE batchFrom(w, users, 1, 0, 0)

batchOptimization(sender, users) ==
    LET res == batchOptimizationCall(World, sender, users)
        w == [res.w EXCEPT !.m.lastOptimizationRun = now,
                           !.ev = Append(@, Event("OptimizationCompleted", "", NoId,
                                                  res.optimizedCount, res.totalProfit, ""))]
    IN
    /\ requestCounter + Len(users) <= MaxRequests
    /\ lastCall' = Call("batchOptimization", sender, "", NoId, Len(users), res.err, w.ev)
                   @@ [args |-> users]
    /\ IF res.err = "" THEN Commit(w)
       ELSE UNCHANGED <<portfolios, rebalanceRequests, userRebalanceHistory,
                        requestCounter, metrics>>
    /\ UNCHANGED <<now, authorizedRebalancers, ledgerPaused, ledgerBalance, created,
                   netDeposits, authorizedAIEngines, enginePaused, oracleVars>>

(* _isProfitableRebalance applied to a portfolio as the ledger holds it: an  *)
(* internal pure function, it writes nothing                                 *)
_isProfitableRebalanceCall(sender, user, newYield, gasCost) ==
    /\ lastCall' = ViewCall("_isProfitableRebalance", sender, user,
                            <<newYield, gasCost>>,
                            _isProfitableRebalance(user, portfolios[user].currentYield,
                                newYield, gasCost, portfolios[user].totalValue))
    /\ UNCHANGED <<now, ledgerVars, engineVars, oracleVars>>

(* _estimateGasCost applied to a pair of venues: an internal pure function,  *)
(* it writes nothing                                                         *)
_estimateGasCostCall(sender, fromProtocol, toProtocol) ==
    /\ lastCall' = ViewCall("_estimateGasCost", sender, "", <<fromProtocol, toProtocol>>,
                            _estimateGasCost(fromProtocol, toProtocol))
    /\ UNCHANGED <<now, ledgerVars, engineVars, oracleVars>>

authorizeAIEngine(sender, aiEngine, authorized) ==
    LET err == IF sender # Admin THEN "Ownable: caller is not the owner" ELSE "" IN
    /\ lastCall' = Call("authorizeAIEngine", sender, aiEngine, NoId, 0, err,
                        <<Event("AIEngineAuthorized", aiEngine, NoId, 0, 0, "")>>)
    /\ IF err = ""
       THEN authorizedAIEngines' = IF authorized
                                   THEN authorizedAIEngines \cup {aiEngine}
                                   ELSE authorizedAIEngines \ {aiEngine}
       ELSE UNCHANGED authorizedAIEngines
    /\ UNCHANGED <<now, ledgerVars, rebalanceRequests, userRebalanceHistory, metrics,
                   requestCounter, enginePaused, oracleVars>>

enginePauseErr(sender, pausing) ==
    IF sender # Admin THEN "Ownable: caller is not the owner"
    ELSE IF pausing /\ enginePaused THEN "Pausable: paused"
    ELSE IF ~pausing /\ ~enginePaused THEN "Pausable: not paused"
    ELSE ""

enginePause(sender, pausing) ==
    LET err == enginePauseErr(sender, pausing) IN
    /\ lastCall' = Call(IF pausing THEN "engine.pause" ELSE "engine.unpause",
                        sender, "", NoId, 0, err, <<>>)
    /\ IF err = "" THEN enginePaused' = pausing ELSE UNCHANGED enginePaused
    /\ UNCHANGED <<now, ledgerVars, rebalanceRequests, userRebalanceHistory,
                   authorizedAIEngines, metrics, requestCounter, oracleVars>>

----------------------------------------------------------------------------
(* Time *)

Tick(limit) ==
    /\ now + TimeStep <= limit
    /\ now' = now + TimeStep
    /\ lastCall' = Call("mine", "", "", NoId, 0, "", <<>>)
    /\ UNCHANGED <<ledgerVars, engineVars, oracleVars>>

Mine == Tick(MaxTime)

----------------------------------------------------------------------------
(* The state after the three constructors, all run at time 0 *)

Init ==
    /\ now = 0
    /\ portfolios = [u \in Users |-> NoPortfolio]
    /\ authorizedRebalancers = {}
    /\ ledgerPaused = FALSE
    /\ ledgerBalance = 0
    /\ created = {}
    /\ netDeposits = [u \in Users |-> 0]
    /\ rebalanceRequests = [id \in 0..(MaxAveraged - 1) |-> NoRequest]
    /\ userRebalanceHistory = [u \in Users |-> <<>>]
    /\ authorizedAIEngines = {}
    /\ metrics = [totalRebalances |-> 0, totalProfitGenerated |-> 0, totalGasSaved |-> 0,
                  averageYieldImprovement |-> 0, lastOptimizationRun |-> 0]
    /\ requestCounter = 0
    /\ enginePaused = FALSE
    /\ protocolYields = [n \in ProtocolNames |->
          IF \E i \in 1..Len(ConstructorProtocols) : ConstructorProtocols[i][1] = n
          THEN [apy |-> 0, tvl |-> 0,
                riskScore |-> constructorRisk(n),
                timestamp |-> 0, active |-> TRUE]
          ELSE NoYieldData]
    /\ yieldHistory = [n \in ProtocolNames |-> <<>>]
    /\ supportedProtocols = [i \in 1..Len(ConstructorProtocols) |-> ConstructorProtocols[i][1]]
    /\ authorizedUpdaters = {}
    /\ oraclePaused = FALSE
    /\ lastCall = Call("constructor", Admin, "", NoId, 0, "", <<>>)

----------------------------------------------------------------------------
(* Spec: one owner, every call of the ledger and of the request life cycle,  *)
(* with the agent's and the engine's authorizations and the ledger's pause   *)
(* switched by the admin.                                                    *)

CreateValues   == {5, 10000}
DepositValues  == {0, 9950}
WithdrawValues(u) == {0, 9950, portfolios[u].totalValue, portfolios[u].totalValue + 1}
RequestYields  == {350, 780}
RequestCosts   == {0, 3, 21}

UserCall ==
    \/ \E v \in CreateValues : createPortfolio("alice", v, BALANCED)
    \/ \E v \in DepositValues :
          /\ portfolios["alice"].totalValue + v <= MaxValue
          /\ depositFunds("alice", v)
    \/ \E a \in WithdrawValues("alice") : withdrawFunds("alice", a)
    \/ toggleAutoRebalance("alice")

AgentCall ==
    \/ \E y \in RequestYields, g \in RequestCosts :
          requestRebalance(Agent, "alice", "Aave", "Compound", y, g)
    \/ \E id \in 0..(MaxRequests - 1) : executeRebalance(Agent, id)
    \/ \E id \in 0..(MaxRequests - 1) : cancelRebalance(Agent, id, "manual")

AdminCall ==
    \/ \E b \in BOOLEAN : authorizeAIEngine(Admin, Agent, b)
    \/ \E b \in BOOLEAN : authorizeRebalancer(Admin, Engine, b)
    \/ \E b \in BOOLEAN : ledgerPause(Admin, b)

Next == UserCall \/ AgentCall \/ AdminCall \/ Mine

Spec == Init /\ [][Next]_vars

----------------------------------------------------------------------------
(* SpecPair: two owners, the admin acting as the decision agent.             *)

PairUserCall ==
    \E u \in Users :
        \/ createPortfolio(u, 10000, BALANCED)
        \/ /\ portfolios[u].totalValue + 9950 <= MaxValue
           /\ depositFunds(u, 9950)
        \/ \E a \in {9950, portfolios[u].totalValue} : withdrawFunds(u, a)

PairAgentCall ==
    \/ \E u \in Users, g \in {0, 3} :
          requestRebalance(Admin, u, "Aave", "Compound", 780, g)
    \/ \E id \in 0..(MaxRequests - 1) : executeRebalance(Admin, id)
    \/ \E id \in 0..(MaxRequests - 1) : cancelRebalance(Admin, id, "manual")

PairAdminCall == authorizeRebalancer(Admin, Engine, TRUE)

NextPair == PairUserCall \/ PairAgentCall \/ PairAdminCall \/ Mine

SpecPair == Init /\ [][NextPair]_vars

----------------------------------------------------------------------------
(* SpecFunds: two owners moving funds and toggling, rebalanced by the admin  *)
(* at no cost; time stands still.                                            *)

FundsUserCall ==
    \E u \in Users :
        \/ createPortfolio(u, 10000, BALANCED)
        \/ \E v \in {0, 9950} :
              /\ portfolios[u].totalValue + v <= MaxValue
              /\ depositFunds(u, v)
        \/ \E a \in {9950, portfolios[u].totalValue} : withdrawFunds(u, a)
        \/ toggleAutoRebalance(u)

FundsAgentCall ==
    \/ \E u \in Users : requestRebalance(Admin, u, "Aave", "Compound", 780, 0)
    \/ \E id \in 0..(MaxRequests - 1) : executeRebalance(Admin, id)
    \/ \E id \in 0..(MaxRequests - 1) : cancelRebalance(Admin, id, "manual")

NextFunds == FundsUserCall \/ FundsAgentCall \/ PairAdminCall

SpecFunds == Init /\ [][NextFunds]_vars

----------------------------------------------------------------------------
(* SpecBatch: two owners, one venue with published yields, the admin acting  *)
(* as the decision agent, single requests and batch runs.                    *)

BatchLists == {<<"alice">>, <<"alice", "bob">>}

BatchUserCall == \E u \in Users : createPortfolio(u, 10000, BALANCED)

BatchAgentCall ==
    \/ \E u \in Users, g \in {0, 3} :
          requestRebalance(Admin, u, "Aave", "Compound", 780, g)
    \/ \E id \in 0..(MaxRequests - 1) : executeRebalance(Admin, id)
    \/ \E id \in 0..(MaxRequests - 1) : cancelRebalance(Admin, id, "manual")
    \/ \E l \in BatchLists : batchOptimization(Admin, l)

BatchAdminCall ==
    \/ authorizeAIEngine(Admin, Engine, TRUE)
    \/ authorizeRebalancer(Admin, Engine, TRUE)
    \/ \E apy \in {350, 780} : updateYield(Admin, "Compound", apy, 1800, 2)

NextBatch == BatchUserCall \/ BatchAgentCall \/ BatchAdminCall \/ Mine

SpecBatch == Init /\ [][NextBatch]_vars

----------------------------------------------------------------------------
(* SpecProfit: the profitability check of the ledger, asked about a          *)
(* portfolio of any of these values and yields.                              *)

ProfitValues    == {0, 50, 217, 10000}
ProfitYields    == {320, 350, 780}
ProfitNewYields == {300, 320, 370, 371, 400, 780, 830, 831}
ProfitCosts     == {0, 3, 20, 500}

InitProfit ==
    /\ now = 0
    /\ \E v \in ProfitValues, y \in ProfitYields :
          portfolios = [u \in Users |->
              IF u = "alice"
              THEN [totalValue |-> v, currentYield |-> y,
                    currentProtocol |-> IF y = INITIAL_YIELD THEN "Aave" ELSE "Compound",
                    riskProfile |-> BALANCED, autoRebalanceEnabled |-> TRUE,
                    lastRebalance |-> 0, totalProfit |-> 0]
              ELSE NoPortfolio]
    /\ authorizedRebalancers = {Engine}
    /\ ledgerPaused = FALSE
    /\ ledgerBalance = portfolios["alice"].totalValue
    /\ created = {"alice"}
    /\ netDeposits = [u \in Users |-> portfolios[u].totalValue]
    /\ rebalanceRequests = [id \in 0..(MaxRequests - 1) |-> NoRequest]
    /\ userRebalanceHistory = [u \in Users |-> <<>>]
    /\ authorizedAIEngines = {}
    /\ metrics = [totalRebalances |-> 0, totalProfitGenerated |-> 0, totalGasSaved |-> 0,
                  averageYieldImprovement |-> 0, lastOptimizationRun |-> 0]
    /\ requestCounter = 0
    /\ enginePaused = FALSE
    /\ protocolYields = [n \in ProtocolNames |->
          IF \E i \in 1..Len(ConstructorProtocols) : ConstructorProtocols[i][1] = n
          THEN [apy |-> 0, tvl |-> 0, riskScore |-> constructorRisk(n),
                timestamp |-> 0, active |-> TRUE]
          ELSE NoYieldData]
    /\ yieldHistory = [n \in ProtocolNames |-> <<>>]
    /\ supportedProtocols = [i \in 1..Len(ConstructorProtocols) |-> ConstructorProtocols[i][1]]
    /\ authorizedUpdaters = {}
    /\ oraclePaused = FALSE
    /\ lastCall = Call("constructor", Admin, "", NoId, 0, "", <<>>)

NextProfit ==
    \E y \in ProfitNewYields, g \in ProfitCosts :
        checkRebalanceProfitabilityCall(Agent, "alice", y, g)

SpecProfit == InitProfit /\ [][NextProfit]_vars

----------------------------------------------------------------------------
(* SpecYield: the registry with yields published once per venue, asked for   *)
(* the best venue; time stands still.  A feed is <<venue, apy, tvl, risk>>.  *)

YieldFeeds ==
    { <<"Aave", 320, 2500, 2>>, <<"Compound", 780, 1800, 2>>, <<"Compound", 0, 1800, 2>>,
      <<"Curve", 540, 850, 3>>, <<"Curve", 780, 850, 3>>, <<"Uniswap", 420, 420, 4>>,
      <<"Uniswap", 900, 420, 6>>, <<"Lido", 900, 60, 2>> }

YieldQuestions == {<<3, 0>>, <<5, 0>>, <<5, 100>>, <<11, 0>>}

NextYield ==
    \/ \E f \in YieldFeeds : updateYield(Admin, f[1], f[2], f[3], f[4])
    \/ deactivateProtocol(Admin, "Compound", "retired")
    \/ \E q \in YieldQuestions : getBestYieldForRiskCall(Agent, q[1], q[2])

SpecYield == Init /\ [][NextYield]_vars

----------------------------------------------------------------------------
(* SpecStale: two venues refreshed while time passes beyond MAX_STALENESS.   *)

StaleFeeds == { <<"Aave", 320, 2500, 2>>, <<"Compound", 780, 1800, 2>> }

NextStale ==
    \/ \E f \in StaleFeeds : updateYieldWithin(MaxArchive, Admin, f[1], f[2], f[3], f[4])
    \/ getBestYieldForRiskCall(Agent, 5, 100)
    \/ Tick(StaleTime)

SpecStale == Init /\ [][NextStale]_vars

----------------------------------------------------------------------------
(* SpecRegistry: venues registered, deactivated and updated by the admin,    *)
(* by an updater the admin may authorize, and by a stranger.                 *)

RegistryCallers == {Admin, Agent}
RegistryVenues  == {"Aave", "Pendle"}
RegistryFeeds   == { <<780, 1800, 2>>, <<50001, 1800, 2>>, <<780, 0, 2>>, <<780, 1800, 11>> }

NextRegistry ==
    \/ \E c \in RegistryCallers, v \in RegistryVenues, f \in RegistryFeeds :
          updateYield(c, v, f[1], f[2], f[3])
    \/ \E c \in RegistryCallers, v \in RegistryVenues, r \in {0, 3} :
          addProtocol(c, v, r)
    \/ \E c \in RegistryCallers, v \in RegistryVenues :
          deactivateProtocol(c, v, "retired")
    \/ \E b \in BOOLEAN : authorizeUpdater(Admin, Agent, b)
    \/ getBestYieldForRiskCall(Agent, 5, 0)
    \/ Mine

SpecRegistry == Init /\ [][NextRegistry]_vars

----------------------------------------------------------------------------
(* SpecRisk: owners of every risk profile, venues of several risk scores,    *)
(* and batch runs by the admin; the engine is a decision agent but not a     *)
(* rebalancer of the ledger, so every batch request ends Cancelled.          *)

RiskFeeds ==
    { <<"Compound", 400, 1800, 2>>, <<"Uniswap", 780, 1800, 4>>, <<"Convex", 900, 1800, 7>> }

NextRisk ==
    \/ \E u \in Users, r \in {CONSERVATIVE, BALANCED, AGGRESSIVE} :
          createPortfolio(u, 10000, r)
    \/ \E f \in RiskFeeds : updateYield(Admin, f[1], f[2], f[3], f[4])
    \/ authorizeAIEngine(Admin, Engine, TRUE)
    \/ \E l \in BatchLists : batchOptimization(Admin, l)

SpecRisk == Init /\ [][NextRisk]_vars

----------------------------------------------------------------------------
(* SpecGate: the privileged functions called by the admin and by an agent    *)
(* whose authorizations the admin grants and revokes, with the pause         *)
(* switches of the engine, of the ledger and of the registry.                *)

GateCallers == {Admin, Agent}

NextGate ==
    \/ createPortfolio("alice", 10000, BALANCED)
    \/ toggleAutoRebalance("alice")
    \/ \E c \in GateCallers, y \in {300, 780} :
          requestRebalance(c, "alice", "Aave", "Compound", y, 0)
    \/ \E c \in GateCallers, id \in 0..(MaxRequests - 1) : executeRebalance(c, id)
    \/ \E c \in GateCallers, id \in 0..(MaxRequests - 1) : cancelRebalance(c, id, "manual")
    \/ \E c \in GateCallers : batchOptimization(c, <<"alice">>)
    \/ \E c \in GateCallers : updateYield(c, "Compound", 780, 1800, 2)
    \/ \E c \in GateCallers, b \in BOOLEAN : authorizeAIEngine(c, Agent, b)
    \/ \E c \in GateCallers, b \in BOOLEAN : authorizeUpdater(c, Agent, b)
    \/ authorizeRebalancer(Admin, Engine, TRUE)
    \/ \E b \in BOOLEAN : enginePause(Admin, b)
    \/ \E b \in BOOLEAN : ledgerPause(Admin, b)
    \/ \E b \in BOOLEAN : oraclePause(Admin, b)

SpecGate == Init /\ [][NextGate]_vars

----------------------------------------------------------------------------
(* SpecRecovery: the funds of two owners, the pause switch of the ledger and *)
(* emergencyWithdraw, called by the admin and by an owner.                   *)

RecoveryCallers == {Admin, "alice"}

NextRecovery ==
    \/ \E u \in Users : createPortfolio(u, 10000, BALANCED)
    \/ \E u \in Users :
          /\ portfolios[u].totalValue + 9950 <= MaxValue
          /\ depositFunds(u, 9950)
    \/ \E u \in Users : \E a \in {9950, portfolios[u].totalValue} : withdrawFunds(u, a)
    \/ \E c \in RecoveryCallers, b \in BOOLEAN : ledgerPause(c, b)
    \/ \E c \in RecoveryCallers : emergencyWithdraw(c)

SpecRecovery == Init /\ [][NextRecovery]_vars

----------------------------------------------------------------------------
(* SpecAuto: owners who switch auto-rebalancing on and off between the       *)
(* admission of a request and its execution, alone or in a batch.            *)

NextAuto ==
    \/ \E u \in Users : createPortfolio(u, 10000, BALANCED)
    \/ \E u \in Users : toggleAutoRebalance(u)
    \/ \E u \in Users : requestRebalance(Admin, u, "Aave", "Compound", 780, 0)
    \/ \E id \in 0..(MaxRequests - 1) : executeRebalance(Admin, id)
    \/ \E l \in BatchLists : batchOptimization(Admin, l)
    \/ updateYield(Admin, "Compound", 780, 1800, 2)
    \/ authorizeAIEngine(Admin, Engine, TRUE)
    \/ authorizeRebalancer(Admin, Engine, TRUE)

SpecAuto == Init /\ [][NextAuto]_vars

----------------------------------------------------------------------------
(* SpecMargin: the two profitability checks, the ledger's and the engine's,  *)
(* applied to every new yield and every cost of a range.  Both are integer   *)
(* functions of their arguments; values and costs are read here in wei.      *)

MarginYields == {321, 322, 330, 371, 372, 380}
MarginCosts  == 0..50

NextMargin ==
    \E y \in MarginYields, g \in MarginCosts :
        \/ checkRebalanceProfitabilityCall(Agent, "alice", y, g)
        \/ _isProfitableRebalanceCall(Agent, "alice", y, g)

SpecMargin == InitProfit /\ [][NextMargin]_vars

----------------------------------------------------------------------------
(* SpecOrder: owners who create their portfolio once and leave it alone;     *)
(* the admin asks for moves to two yields at no cost, an hour apart, and     *)
(* executes or cancels the requests in any order.                            *)

OrderYields == {780, 900}

NextOrder ==
    \/ \E u \in Users : u \notin created /\ createPortfolio(u, 10000, BALANCED)
    \/ \E u \in Users, y \in OrderYields :
          requestRebalance(Admin, u, "Aave", "Compound", y, 0)
    \/ \E id \in 0..(MaxRequests - 1) : executeRebalance(Admin, id)
    \/ \E id \in 0..(MaxRequests - 1) : cancelRebalance(Admin, id, "manual")
    \/ authorizeRebalancer(Admin, Engine, TRUE)
    \/ Mine

SpecOrder == Init /\ [][NextOrder]_vars

----------------------------------------------------------------------------
(* SpecHistory: two venues refreshed with changing yields while time passes, *)
(* and their histories read back.                                            *)

HistoryFeeds ==
    { <<"Aave", 320, 2500, 2>>, <<"Compound", 350, 1800, 2>>, <<"Compound", 780, 1800, 2>> }

NextHistory ==
    \/ \E f \in HistoryFeeds :
          updateYieldWithin(HistoryLimit, Admin, f[1], f[2], f[3], f[4])
    \/ \E n \in {"Aave", "Compound"}, limit \in 0..HistoryLimit :
          getYieldHistoryCall(Agent, n, limit)
    \/ Mine

SpecHistory == Init /\ [][NextHistory]_vars

----------------------------------------------------------------------------
(* SpecCost: the cost estimate of the batch, applied to every pair of venues *)
(* and used by batches that send an owner to Curve or to Yearn.              *)

CostFeeds == { <<"Curve", 900, 1800, 3>>, <<"Yearn", 950, 1800, 3>> }

NextCost ==
    \/ \E from \in ProtocolNames, to \in ProtocolNames : _estimateGasCostCall(Agent, from, to)
    \/ createPortfolio("alice", 10000, BALANCED)
    \/ \E f \in CostFeeds : updateYield(Admin, f[1], f[2], f[3], f[4])
    \/ authorizeAIEngine(Admin, Engine, TRUE)
    \/ batchOptimization(Admin, <<"alice">>)

SpecCost == Init /\ [][NextCost]_vars

----------------------------------------------------------------------------
(* SpecAverage: one owner moved three times at no cost, each move admitted   *)
(* an hour after the one before, so that the average improvement is          *)
(* recomputed three times.                                                   *)

AverageYields == {780, 831, 884}

NextAverage ==
    \/ "alice" \notin created /\ createPortfolio("alice", 10000, BALANCED)
    \/ \E y \in AverageYields :
          requestRebalanceWithin(MaxAveraged, Admin, "alice",
                                 portfolios["alice"].currentProtocol, "Compound", y, 0)
    \/ \E id \in 0..(MaxAveraged - 1) : executeRebalance(Admin, id)
    \/ authorizeRebalancer(Admin, Engine, TRUE)
    \/ Tick(StaleTime)

SpecAverage == Init /\ [][NextAverage]_vars

----------------------------------------------------------------------------
(* SpecReentry: two owners, each a contract that calls back into the ledger  *)
(* when it is paid.                                                          *)

NestedCalls ==
    { [op |-> "withdrawFunds", amt |-> 50], [op |-> "withdrawFunds", amt |-> 9950],
      [op |-> "depositFunds", amt |-> 9950], [op |-> "createPortfolio", amt |-> 10000] }

NextReentry ==
    \/ \E u \in Users : createPortfolio(u, 10000, BALANCED)
    \/ \E u \in Users :
          /\ portfolios[u].totalValue + 9950 <= MaxValue
          /\ depositFunds(u, 9950)
    \/ \E u \in Users, n \in NestedCalls, swallow \in BOOLEAN :
          \E a \in {9950, portfolios[u].totalValue} :
             /\ portfolios[u].totalValue - a + n.amt <= MaxValue
             /\ withdrawFundsReentered(u, a, n, swallow)

SpecReentry == Init /\ [][NextReentry]_vars

----------------------------------------------------------------------------
(* Vocabulary of the properties *)

Pending(r) == ~r.executed /\ ~r.cancelled

RequestIds == 0..(MaxRequests - 1)

(* The step just taken is this call; the unprimed state is the one it met *)
Called(op) == lastCall'.op = op

(* The ids of the requests admitted for a user so far, from the request     *)
(* table itself rather than from the per-user index                         *)
requestsOf(u) == {id \in RequestIds : id < requestCounter /\ rebalanceRequests[id].user = u}

latestRequestOf(u) == CHOOSE id \in requestsOf(u) : \A other \in requestsOf(u) : other <= id

sinceLastRequest(u) == now - rebalanceRequests[latestRequestOf(u)].timestamp

----------------------------------------------------------------------------
(* C1: every request below requestCounter is never both executed and        *)
(* cancelled, and a request that is Executed or Cancelled is never changed  *)
(* again by any call; a Pending request changes only by becoming Executed   *)
(* or Cancelled, its other fields kept.                                     *)
C1_TerminalIsFinal ==
    [][\A id \in RequestIds :
         /\ id < requestCounter' =>
               ~(rebalanceRequests'[id].executed /\ rebalanceRequests'[id].cancelled)
         /\ (id < requestCounter /\ ~Pending(rebalanceRequests[id])) =>
               rebalanceRequests'[id] = rebalanceRequests[id]
         /\ (id < requestCounter /\ Pending(rebalanceRequests[id])) =>
               \/ rebalanceRequests'[id] = rebalanceRequests[id]
               \/ rebalanceRequests'[id] = [rebalanceRequests[id] EXCEPT !.executed = TRUE]
               \/ rebalanceRequests'[id] = [rebalanceRequests[id] EXCEPT !.cancelled = TRUE]
      ]_vars

(* an Executed request and a request a batch run cancelled, with a cancel   *)
(* of the Executed one just refused                                         *)
C1_Witness ==
    /\ lastCall.op = "cancelRebalance"
    /\ lastCall.err = "Request already executed"
    /\ \E id \in RequestIds :
          /\ id < requestCounter
          /\ rebalanceRequests[id].cancelled
          /\ rebalanceRequests[id].estimatedGas = BASE_GAS_COST

----------------------------------------------------------------------------
(* C2: every executeRebalance by an authorized caller on an existing        *)
(* Pending request, the engine not paused, leaves the request not Pending   *)
(* when the call has returned, whether it succeeded or failed.              *)
C2_ExecuteLeavesNoPending ==
    [][(/\ Called("executeRebalance")
        /\ onlyAuthorizedAI(lastCall'.caller)
        /\ lastCall'.id < requestCounter
        /\ Pending(rebalanceRequests[lastCall'.id])
        /\ ~enginePaused)
       => ~Pending(rebalanceRequests'[lastCall'.id])]_vars

(* C3: executeRebalance on a Pending request that is no longer profitable   *)
(* against the portfolio's current value and yield cancels the request and  *)
(* changes no field of the portfolio and no metric.                         *)
C3_StaleRequestCancelled ==
    [][(/\ Called("executeRebalance")
        /\ onlyAuthorizedAI(lastCall'.caller)
        /\ lastCall'.id < requestCounter
        /\ Pending(rebalanceRequests[lastCall'.id])
        /\ ~enginePaused
        /\ LET request == rebalanceRequests[lastCall'.id]
               portfolio == portfolios[request.user]
           IN  /\ portfolio.autoRebalanceEnabled
               /\ ~_isProfitableRebalance(request.user, portfolio.currentYield,
                       request.expectedYield, request.estimatedGas, portfolio.totalValue))
       => /\ rebalanceRequests'[lastCall'.id].cancelled
          /\ portfolios' = portfolios
          /\ metrics' = metrics]_vars

(* C4: when executeRebalance reaches the ledger call and the ledger's       *)
(* executeRebalance fails, for whatever reason, the request ends Cancelled  *)
(* and the portfolio is unchanged.                                          *)
C4_LedgerFailureCancels ==
    [][(/\ Called("executeRebalance")
        /\ executeRebalanceErr(World, lastCall'.caller, lastCall'.id) = ""
        /\ LET request == rebalanceRequests[lastCall'.id]
           IN  ledgerExecuteRebalance(portfolios, Engine, request.user, request.toProtocol,
                   request.expectedYield, request.estimatedGas).err # "")
       => /\ rebalanceRequests'[lastCall'.id].cancelled
          /\ portfolios' = portfolios]_vars

(* C5: a Pending request executed by an authorized caller, nothing paused,  *)
(* the engine an authorized rebalancer, auto-rebalance on, the cost within  *)
(* the cap and the ledger's profitability check true, ends Executed with    *)
(* the portfolio on the request's toProtocol and expectedYield, for every   *)
(* allowed cost, costs above zero included.                                 *)
C5_ProfitableRequestExecuted ==
    [][(/\ Called("executeRebalance")
        /\ onlyAuthorizedAI(lastCall'.caller)
        /\ lastCall'.id < requestCounter
        /\ Pending(rebalanceRequests[lastCall'.id])
        /\ ~enginePaused
        /\ ~ledgerPaused
        /\ Engine \in authorizedRebalancers
        /\ LET request == rebalanceRequests[lastCall'.id]
           IN  /\ portfolios[request.user].totalValue > 0
               /\ portfolios[request.user].autoRebalanceEnabled
               /\ request.estimatedGas <= MAX_GAS_THRESHOLD
               /\ checkRebalanceProfitability(portfolios, request.user,
                       request.expectedYield, request.estimatedGas))
       => LET request == rebalanceRequests[lastCall'.id]
          IN  /\ rebalanceRequests'[lastCall'.id].executed
              /\ portfolios'[request.user].currentProtocol = request.toProtocol
              /\ portfolios'[request.user].currentYield = request.expectedYield]_vars

(* C6: requestRebalance for a user is rejected whenever less than           *)
(* REBALANCE_COOLDOWN has passed since that user's most recent admitted     *)
(* request, whatever became of that request; a user with no request yet is  *)
(* never rejected for the cooldown; a rejected request leaves the request   *)
(* table and the histories, hence the cooldown, as they were.               *)
C6_CooldownEnforced ==
    [][Called("requestRebalance") =>
         LET u == lastCall'.user IN
         /\ (requestsOf(u) # {} /\ sinceLastRequest(u) < REBALANCE_COOLDOWN)
               => ~lastCall'.ok
         /\ requestsOf(u) = {} => lastCall'.err # "Cooldown period active"
         /\ ~lastCall'.ok => /\ rebalanceRequests' = rebalanceRequests
                             /\ userRebalanceHistory' = userRebalanceHistory
                             /\ requestCounter' = requestCounter]_vars

(* a request rejected for the cooldown while the user's earlier request is  *)
(* already Executed                                                         *)
C6_Witness ==
    /\ lastCall.op = "requestRebalance"
    /\ lastCall.err = "Cooldown period active"
    /\ requestsOf(lastCall.user) # {}
    /\ rebalanceRequests[latestRequestOf(lastCall.user)].executed

(* C7: every portfolio's totalValue is its initial deposit plus its         *)
(* deposits minus its withdrawals, after any sequence of calls; a           *)
(* rebalance, executed or cancelled, never changes it.                      *)
C7_ValueIsNetDeposits ==
    \A u \in Users : portfolios[u].totalValue = netDeposits[u]

(* a portfolio drawn on between the admission and the execution of its     *)
(* rebalance                                                               *)
C7_Witness ==
    \E u \in Users :
        /\ lastCall.op = "executeRebalance" /\ lastCall.ok /\ lastCall.user = u
        /\ rebalanceRequests[lastCall.id].executed
        /\ rebalanceRequests[lastCall.id].amount # portfolios[u].totalValue
        /\ portfolios[u].totalValue > 0

(* C8: withdrawFunds(amount) fails whenever amount is zero or above the     *)
(* caller's totalValue; a failed withdrawal leaves the portfolios and the   *)
(* funds held as they were; a successful one takes exactly amount off       *)
(* totalValue and off the funds held, and totalValue is never negative.     *)
C8_WithdrawExact ==
    [][Called("withdrawFunds") =>
         LET u == lastCall'.caller
             amount == lastCall'.amt
         IN  /\ (amount = 0 \/ amount > portfolios[u].totalValue) => ~lastCall'.ok
             /\ ~lastCall'.ok => /\ portfolios' = portfolios
                                 /\ ledgerBalance' = ledgerBalance
             /\ lastCall'.ok =>
                   /\ portfolios' = [portfolios EXCEPT ![u].totalValue = @ - amount]
                   /\ ledgerBalance' = ledgerBalance - amount
             /\ portfolios'[u].totalValue >= 0]_vars

(* a withdrawal refused for exceeding the totalValue of an existing portfolio *)
C8_Witness ==
    /\ lastCall.op = "withdrawFunds"
    /\ lastCall.err = "Insufficient balance"
    /\ portfolios[lastCall.caller].totalValue > 0
    /\ lastCall.amt > portfolios[lastCall.caller].totalValue

(* C9: once createPortfolio has succeeded for an owner, every later         *)
(* createPortfolio by that owner fails, whatever was deposited or           *)
(* withdrawn in between.                                                    *)
C9_NoSecondCreation ==
    [][(Called("createPortfolio") /\ lastCall'.caller \in created)
       => ~lastCall'.ok]_vars

(* C10: checkRebalanceProfitability(user, newYield, cost) changes no state  *)
(* and returns true exactly when newYield > currentYield + 50 and           *)
(* totalValue * (newYield - currentYield) / 10000 >= cost * 115 / 100; for  *)
(* value 10000 at 320 bp and new yield 780 bp it is true for cost 3 and     *)
(* false for cost 500.                                                      *)
C10_ProfitabilityFormula ==
    [][Called("checkRebalanceProfitability") =>
         LET portfolio == portfolios[lastCall'.user]
             newYield == lastCall'.args[1]
             cost == lastCall'.args[2]
             gain == newYield - portfolio.currentYield
         IN  /\ lastCall'.ret =
                   (/\ newYield > portfolio.currentYield + 50
                    /\ (portfolio.totalValue * gain) \div 10000 >= (cost * 115) \div 100)
             /\ (portfolio.totalValue = 10000 /\ portfolio.currentYield = 320
                    /\ newYield = 780 /\ cost = 3) => lastCall'.ret = TRUE
             /\ (portfolio.totalValue = 10000 /\ portfolio.currentYield = 320
                    /\ newYield = 780 /\ cost = 500) => lastCall'.ret = FALSE
             /\ UNCHANGED <<now, ledgerVars, engineVars, oracleVars>>]_vars

(* cost 500 found unprofitable on value 10000 moving from 320 bp to 780 bp *)
C10_Witness ==
    /\ lastCall.op = "checkRebalanceProfitability"
    /\ portfolios[lastCall.user].totalValue = 10000
    /\ portfolios[lastCall.user].currentYield = 320
    /\ lastCall.args = <<780, 500>>
    /\ lastCall.ret = FALSE

----------------------------------------------------------------------------
(* C11: every request admitted by requestRebalance passes the ledger's      *)
(* profitability check, minimum yield improvement included, for its         *)
(* expectedYield and estimated cost on the portfolio as it is at admission; *)
(* a rejected call creates no request record.                               *)
C11_AdmittedPassesLedgerCheck ==
    [][Called("requestRebalance") =>
         /\ lastCall'.ok =>
               LET request == rebalanceRequests'[lastCall'.id]
               IN  checkRebalanceProfitability(portfolios, request.user,
                       request.expectedYield, request.estimatedGas)
         /\ ~lastCall'.ok => /\ requestCounter' = requestCounter
                             /\ rebalanceRequests' = rebalanceRequests]_vars

(* C12: a request is created only if, at admission, its estimated cost is   *)
(* at most MAX_GAS_COST, the user's portfolio has a positive totalValue,    *)
(* auto-rebalance is enabled and the portfolio's current protocol is the    *)
(* request's fromProtocol; a rejected call leaves requestCounter, the       *)
(* request table and the histories unchanged.                               *)
C12_AdmissionGuards ==
    [][Called("requestRebalance") =>
         /\ lastCall'.ok =>
               LET request == rebalanceRequests'[lastCall'.id]
                   portfolio == portfolios[request.user]
               IN  /\ requestCounter' = requestCounter + 1
                   /\ request.estimatedGas <= MAX_GAS_COST
                   /\ portfolio.totalValue > 0
                   /\ portfolio.autoRebalanceEnabled
                   /\ portfolio.currentProtocol = request.fromProtocol
         /\ ~lastCall'.ok => /\ requestCounter' = requestCounter
                             /\ rebalanceRequests' = rebalanceRequests
                             /\ userRebalanceHistory' = userRebalanceHistory]_vars

(* a request refused because the portfolio had already moved off the        *)
(* protocol it names as its origin                                          *)
C12_Witness ==
    /\ lastCall.op = "requestRebalance"
    /\ lastCall.err = "From protocol mismatch"
    /\ portfolios[lastCall.user].currentProtocol = "Compound"

(* C13: a successful requestRebalance allocates the id requestCounter,      *)
(* above every id allocated before, stores exactly one new Pending request  *)
(* whose amount is the portfolio's totalValue at that moment and appends    *)
(* the id to the user's history; the last entry of a user's history is      *)
(* always that user's highest request id; the user, protocols, amount,      *)
(* expectedYield, cost and timestamp of a stored request never change.      *)
C13_RequestRecordKept ==
    [][/\ (Called("requestRebalance") /\ lastCall'.ok) =>
             LET id == lastCall'.id
                 u == lastCall'.user
             IN  /\ id = requestCounter
                 /\ requestCounter' = requestCounter + 1
                 /\ Pending(rebalanceRequests'[id])
                 /\ rebalanceRequests'[id].user = u
                 /\ rebalanceRequests'[id].amount = portfolios[u].totalValue
                 /\ rebalanceRequests'[id].timestamp = now
                 /\ \A other \in RequestIds \ {id} :
                       rebalanceRequests'[other] = rebalanceRequests[other]
                 /\ userRebalanceHistory' =
                       [userRebalanceHistory EXCEPT ![u] = Append(@, id)]
       /\ \A id \in RequestIds :
             id < requestCounter =>
                 /\ id < requestCounter'
                 /\ [rebalanceRequests'[id] EXCEPT !.executed = FALSE, !.cancelled = FALSE]
                      = [rebalanceRequests[id] EXCEPT !.executed = FALSE, !.cancelled = FALSE]
       /\ \A u \in Users :
             LET ids == {id \in RequestIds : /\ id < requestCounter'
                                            /\ rebalanceRequests'[id].user = u}
                 history == userRebalanceHistory'[u]
             IN  /\ (ids = {}) = (history = <<>>)
                 /\ ids # {} => /\ history[Len(history)] \in ids
                                /\ \A id \in ids : id <= history[Len(history)]
      ]_vars

(* the second request of a user, admitted for another amount than the first *)
C13_Witness ==
    /\ lastCall.op = "requestRebalance"
    /\ lastCall.ok
    /\ lastCall.id = 1
    /\ userRebalanceHistory[lastCall.user] = <<0, 1>>
    /\ rebalanceRequests[1].amount # rebalanceRequests[0].amount

(* C14: cancelRebalance by an authorized caller on a Pending request makes  *)
(* it Cancelled and emits one cancelled event; on a request already         *)
(* Cancelled or Executed, or on an unknown id, it fails, changes no state   *)
(* and emits no event.                                                      *)
C14_CancelOnce ==
    [][Called("cancelRebalance") =>
         LET id == lastCall'.id
             known == id < requestCounter
         IN  /\ (onlyAuthorizedAI(lastCall'.caller) /\ known
                   /\ Pending(rebalanceRequests[id])) =>
                   /\ lastCall'.ok
                   /\ rebalanceRequests' =
                         [rebalanceRequests EXCEPT ![id].cancelled = TRUE]
                   /\ Len(lastCall'.events) = 1
                   /\ lastCall'.events[1].name = "RebalanceCancelled"
                   /\ lastCall'.events[1].id = id
             /\ (~known \/ ~Pending(rebalanceRequests[id])) =>
                   /\ ~lastCall'.ok
                   /\ lastCall'.events = <<>>
                   /\ rebalanceRequests' = rebalanceRequests
             /\ UNCHANGED <<now, ledgerVars, userRebalanceHistory, authorizedAIEngines,
                            metrics, requestCounter, enginePaused, oracleVars>>]_vars

(* a cancelRebalance of a request that is already Cancelled, refused *)
C14_Witness ==
    /\ lastCall.op = "cancelRebalance"
    /\ ~lastCall.ok
    /\ onlyAuthorizedAI(lastCall.caller)
    /\ lastCall.id < requestCounter
    /\ rebalanceRequests[lastCall.id].cancelled
    /\ lastCall.events = <<>>

----------------------------------------------------------------------------
(* The positions in the list of supported protocols whose record is active, *)
(* not stale, of risk at most maxRisk and of tvl at least minTvl            *)
qualifying(maxRisk, minTvl) ==
    {i \in 1..Len(supportedProtocols) :
        LET data == protocolYields[supportedProtocols[i]]
        IN  /\ data.active
            /\ now - data.timestamp <= MAX_STALENESS
            /\ data.riskScore <= maxRisk
            /\ data.tvl >= minTvl}

(* C15: getBestYieldForRisk(maxRisk, minTvl) returns, among the active,     *)
(* fresh records of risk at most maxRisk and tvl at least minTvl, the one   *)
(* of highest apy, the earliest registered on ties, and the empty result    *)
(* only when no record passes the filters; over Aave 320 bp, Compound       *)
(* 780 bp, Curve 540 bp and Uniswap 420 bp with maxRisk 5 it returns        *)
(* Compound.                                                                *)
C15_BestQualifyingYield ==
    [][(Called("getBestYieldForRisk") /\ lastCall'.ok) =>
         LET ret == lastCall'.ret
             among == qualifying(lastCall'.args[1], lastCall'.args[2])
             apyAt(i) == protocolYields[supportedProtocols[i]].apy
         IN  /\ (ret.bestProtocol = "") = (among = {})
             /\ among # {} =>
                   \E i \in among :
                       /\ ret.bestProtocol = supportedProtocols[i]
                       /\ ret.bestYield = apyAt(i)
                       /\ \A j \in among : /\ apyAt(j) <= apyAt(i)
                                            /\ apyAt(j) = apyAt(i) => i <= j
             /\ (/\ lastCall'.args = <<5, 100>>
                 /\ protocolYields["Aave"].apy = 320
                 /\ protocolYields["Compound"].apy = 780
                 /\ protocolYields["Compound"].active
                 /\ protocolYields["Curve"].apy = 540
                 /\ protocolYields["Uniswap"].apy = 420
                 /\ protocolYields["Uniswap"].riskScore = 4)
                => ret.bestProtocol = "Compound"]_vars

(* C16: a record last updated more than MAX_STALENESS ago is never returned *)
(* by getBestYieldForRisk, whatever its apy; a record exactly MAX_STALENESS *)
(* old still competes; the passing of time and the question change neither  *)
(* the records nor their histories; a successful updateYield leaves the     *)
(* record fresh.                                                            *)
C16_StaleExcluded ==
    [][/\ (Called("getBestYieldForRisk") /\ lastCall'.ok) =>
             LET ret == lastCall'.ret
                 among == qualifying(lastCall'.args[1], lastCall'.args[2])
             IN  /\ \A v \in ProtocolNames :
                       now - protocolYields[v].timestamp > MAX_STALENESS
                          => ret.bestProtocol # v
                 /\ \A i \in among :
                       now - protocolYields[supportedProtocols[i]].timestamp = MAX_STALENESS
                          => ret.bestYield >= protocolYields[supportedProtocols[i]].apy
       /\ (Called("getBestYieldForRisk") \/ Called("mine")) =>
             /\ protocolYields' = protocolYields
             /\ yieldHistory' = yieldHistory
       /\ (Called("updateYield") /\ lastCall'.ok) =>
             /\ now - protocolYields'[lastCall'.user].timestamp <= MAX_STALENESS
             /\ Len(yieldHistory'[lastCall'.user]) = Len(yieldHistory[lastCall'.user]) + 1
      ]_vars

(* Compound, of the highest apy, gone stale and passed over for Aave *)
C16_Witness ==
    /\ lastCall.op = "getBestYieldForRisk"
    /\ protocolYields["Compound"].apy = 780
    /\ now - protocolYields["Compound"].timestamp > MAX_STALENESS
    /\ lastCall.ret.bestProtocol = "Aave"

(* C17: updateYield succeeds only for an authorized updater or the admin,   *)
(* on an active protocol, with riskScore in 1..10, apy at most 50000 and    *)
(* tvl at least MIN_TVL_THRESHOLD; a successful update stamps the record    *)
(* with the current time; a failed one leaves the record, its history and   *)
(* its timestamp as they were.                                              *)
C17_UpdateYieldGuards ==
    [][Called("updateYield") =>
         LET v == lastCall'.user
             apy == lastCall'.args[1]
             tvl == lastCall'.args[2]
             riskScore == lastCall'.args[3]
         IN  /\ lastCall'.ok =>
                   /\ lastCall'.caller \in authorizedUpdaters \cup {Admin}
                   /\ protocolYields[v].active
                   /\ riskScore \in 1..10
                   /\ apy <= 50000
                   /\ tvl >= MIN_TVL_THRESHOLD
                   /\ protocolYields'[v] = [apy |-> apy, tvl |-> tvl, riskScore |-> riskScore,
                                            timestamp |-> now, active |-> TRUE]
                   /\ \A other \in ProtocolNames \ {v} :
                         protocolYields'[other] = protocolYields[other]
             /\ ~lastCall'.ok => /\ protocolYields' = protocolYields
                                 /\ yieldHistory' = yieldHistory]_vars

(* an update by the authorized updater, made after time has passed *)
C17_Witness ==
    /\ lastCall.op = "updateYield"
    /\ lastCall.ok
    /\ lastCall.caller = Agent
    /\ now > 0
    /\ protocolYields[lastCall.user].timestamp = now

(* The names that have been registered, by the constructor or since *)
registered == {supportedProtocols[i] : i \in 1..Len(supportedProtocols)}

(* C18: addProtocol succeeds only for the admin, only with riskScore in     *)
(* 1..10 and only for a name never registered before, a deactivated one     *)
(* included; the list of supported protocols never holds a name twice.      *)
C18_RegisteredOnce ==
    [][/\ (Called("addProtocol") /\ lastCall'.ok) =>
             /\ lastCall'.caller = Admin
             /\ lastCall'.amt \in 1..10
             /\ lastCall'.user \notin registered
       /\ \A i, j \in 1..Len(supportedProtocols') :
             supportedProtocols'[i] = supportedProtocols'[j] => i = j
      ]_vars

(* C19: deactivateProtocol by the admin clears the active flag and leaves   *)
(* apy, tvl, riskScore, timestamp and history as they were; from then on    *)
(* the venue is never returned by getBestYieldForRisk, never accepted by    *)
(* updateYield, and its record stays as deactivated, neither deleted nor    *)
(* replaced.                                                                *)
C19_DeactivatedForGood ==
    [][/\ (Called("deactivateProtocol") /\ lastCall'.ok) =>
             /\ lastCall'.caller = Admin
             /\ protocolYields' =
                   [protocolYields EXCEPT ![lastCall'.user].active = FALSE]
             /\ yieldHistory' = yieldHistory
             /\ supportedProtocols' = supportedProtocols
       /\ \A v \in registered :
             ~protocolYields[v].active =>
                 /\ protocolYields'[v] = protocolYields[v]
                 /\ yieldHistory'[v] = yieldHistory[v]
                 /\ (Called("updateYield") /\ lastCall'.user = v) => ~lastCall'.ok
                 /\ Called("getBestYieldForRisk") => lastCall'.ret.bestProtocol # v
      ]_vars

(* A user the loop of batchOptimization would take up in this state: the    *)
(* portfolio holds funds with auto-rebalance on, the registry offers a      *)
(* better venue within the risk ceiling, and the synthesized request        *)
(* passes the admission checks when made by the engine itself               *)
batchCandidate(u) ==
    LET portfolio == portfolios[u]
        ceiling == _mapRiskProfile(portfolio.riskProfile)
        best == getBestYieldForRisk(ceiling, BATCH_MIN_TVL)
    IN  /\ portfolio.autoRebalanceEnabled
        /\ portfolio.totalValue > 0
        /\ best.bestProtocol # ""
        /\ best.bestYield > portfolio.currentYield
        /\ best.riskScore <= ceiling
        /\ requestRebalanceErr(World, Engine, u, portfolio.currentProtocol,
               best.bestProtocol, best.bestYield,
               _estimateGasCost(portfolio.currentProtocol, best.bestProtocol)) = ""

(* C20: in batchOptimization over a list of users, whatever happens while   *)
(* one user whom the loop takes up is processed, the call does not revert   *)
(* and every other user of the list whom the loop takes up is processed: a  *)
(* request for that user is created, is Executed or Cancelled, and          *)
(* persists.                                                                *)
C20_BatchIsolatesUsers ==
    [][(/\ Called("batchOptimization")
        /\ onlyAuthorizedAI(lastCall'.caller)
        /\ ~enginePaused)
       => LET users == lastCall'.args
          IN  \A i, j \in 1..Len(users) :
                 (i # j /\ batchCandidate(users[i]) /\ batchCandidate(users[j])) =>
                     /\ lastCall'.ok
                     /\ \E id \in RequestIds :
                           /\ requestCounter <= id /\ id < requestCounter'
                           /\ rebalanceRequests'[id].user = users[j]
                           /\ ~Pending(rebalanceRequests'[id])]_vars

----------------------------------------------------------------------------
(* The profit fields of the RebalanceExecuted events of a call, summed *)
RECURSIVE executedProfit(_, _)
executedProfit(events, i) ==
    IF i > Len(events) THEN 0
    ELSE (IF events[i].name = "RebalanceExecuted" THEN events[i].profit ELSE 0)
         + executedProfit(events, i + 1)

(* C21: the optimized count in the summary event of a batchOptimization     *)
(* call is the number of requests created in that call that reached         *)
(* Executed, and the total profit in it is the sum of the realized profits  *)
(* of exactly those requests.                                               *)
C21_SummaryCountsExecuted ==
    [][(Called("batchOptimization") /\ lastCall'.ok) =>
         LET events == lastCall'.events
             summary == events[Len(events)]
             executedNow == {id \in RequestIds :
                               /\ requestCounter <= id /\ id < requestCounter'
                               /\ rebalanceRequests'[id].executed}
         IN  /\ summary.name = "OptimizationCompleted"
             /\ summary.amount = Cardinality(executedNow)
             /\ summary.profit = executedProfit(events, 1)]_vars

(* C22: batchOptimization asks the registry with risk ceiling 3 for a       *)
(* Conservative portfolio, 5 for a Balanced one and 8 for an Aggressive     *)
(* one: the venue of every request a batch run creates is the registry's    *)
(* best venue under that ceiling, and its riskScore is within it.           *)
C22_BatchRiskCeiling ==
    [][(Called("batchOptimization") /\ lastCall'.ok) =>
         \A id \in RequestIds :
             (requestCounter <= id /\ id < requestCounter') =>
                 LET request == rebalanceRequests'[id]
                     profile == portfolios[request.user].riskProfile
                     ceiling == IF profile = CONSERVATIVE THEN 3
                                ELSE IF profile = BALANCED THEN 5 ELSE 8
                 IN  /\ protocolYields[request.toProtocol].riskScore <= ceiling
                     /\ request.toProtocol
                           = getBestYieldForRisk(ceiling, BATCH_MIN_TVL).bestProtocol]_vars

(* The entry points of the engine behind onlyAuthorizedAI *)
AgentOps == {"requestRebalance", "executeRebalance", "cancelRebalance", "batchOptimization"}

(* C23: a call of requestRebalance, executeRebalance, cancelRebalance or     *)
(* batchOptimization by a caller that is, when it calls, neither the admin   *)
(* nor in authorizedAIEngines reverts with "Not authorized AI engine"        *)
(* whatever else is wrong (engine paused, invalid id, unprofitable) and      *)
(* changes nothing; a call of updateYield by a caller that is neither the    *)
(* admin nor in authorizedUpdaters reverts with "Not authorized" and writes  *)
(* no yield record; the two sets change only in a call made by the admin.    *)
C23_OnlyAuthorizedCallers ==
    [][ /\ (lastCall'.op \in AgentOps /\ ~onlyAuthorizedAI(lastCall'.caller))
            => /\ ~lastCall'.ok
               /\ lastCall'.err = "Not authorized AI engine"
               /\ UNCHANGED <<ledgerVars, engineVars, oracleVars>>
        /\ (Called("updateYield")
              /\ ~(lastCall'.caller \in authorizedUpdaters \/ lastCall'.caller = Admin))
            => /\ ~lastCall'.ok
               /\ lastCall'.err = "Not authorized"
               /\ UNCHANGED <<ledgerVars, engineVars, oracleVars>>
        /\ (authorizedAIEngines' # authorizedAIEngines)
            => (Called("authorizeAIEngine") /\ lastCall'.caller = Admin)
        /\ (authorizedUpdaters' # authorizedUpdaters)
            => (Called("authorizeUpdater") /\ lastCall'.caller = Admin)
      ]_vars

(* An executeRebalance of the agent, its authorization revoked or never      *)
(* given, refused with the authorization error while the engine is paused    *)
(* and the id it names is no request                                         *)
C23_Witness ==
    /\ lastCall.op = "executeRebalance"
    /\ lastCall.caller = Agent
    /\ Agent \notin authorizedAIEngines
    /\ lastCall.err = "Not authorized AI engine"
    /\ enginePaused
    /\ requestCounter > 0
    /\ ~(lastCall.id < requestCounter)

(* The entry points the pause is to stop *)
PausableOps ==
    {"createPortfolio", "depositFunds", "withdrawFunds", "toggleAutoRebalance",
     "updateRiskProfile", "updateYield", "requestRebalance", "executeRebalance",
     "cancelRebalance", "batchOptimization"}

(* C24: while the engine, the ledger and the registry are all paused, a call *)
(* of createPortfolio, depositFunds, withdrawFunds, toggleAutoRebalance,     *)
(* updateRiskProfile, updateYield, requestRebalance, executeRebalance,       *)
(* cancelRebalance or batchOptimization by anyone but the admin reverts and  *)
(* changes no state.                                                         *)
C24_PausedRefusesAll ==
    [][ (/\ enginePaused /\ ledgerPaused /\ oraclePaused
         /\ lastCall'.op \in PausableOps
         /\ lastCall'.caller # Admin)
        => /\ ~lastCall'.ok
           /\ UNCHANGED <<ledgerVars, engineVars, oracleVars>>
      ]_vars

(* C25: emergencyWithdraw, called on a ledger that holds funds, returns only *)
(* when its caller is the admin and the ledger is paused; called while the   *)
(* ledger is not paused it reverts and the balance of the ledger stays what  *)
(* it was.                                                                   *)
C25_RecoveryOnlyWhenPaused ==
    [][ (Called("emergencyWithdraw") /\ ledgerBalance > 0)
        => /\ lastCall'.ok => (lastCall'.caller = Admin /\ ledgerPaused)
           /\ ~ledgerPaused => (~lastCall'.ok /\ ledgerBalance' = ledgerBalance)
      ]_vars

(* C26: an executeRebalance whose call of the ledger returns (the request    *)
(* becomes Executed) sets the portfolio's currentProtocol to the target,     *)
(* currentYield to y1 and lastRebalance to the time of the call, and adds    *)
(* exactly V * (y1 - y0) / 10000 - c to its totalProfit; one whose call of   *)
(* the ledger fails leaves the four fields as they were.                     *)
C26_LedgerRebalanceEffect ==
    [][ \A id \in RequestIds :
          (Called("executeRebalance") /\ lastCall'.id = id /\ id < requestCounter)
          => LET request == rebalanceRequests[id]
                 before == portfolios[request.user]
                 after == portfolios'[request.user]
             IN  IF lastCall'.ok /\ rebalanceRequests'[id].executed
                 THEN /\ after.currentProtocol = request.toProtocol
                      /\ after.currentYield = request.expectedYield
                      /\ after.lastRebalance = now
                      /\ after.totalProfit = before.totalProfit
                            + (before.totalValue
                               * (request.expectedYield - before.currentYield)) \div 10000
                            - request.estimatedGas
                 ELSE /\ after.currentProtocol = before.currentProtocol
                      /\ after.currentYield = before.currentYield
                      /\ after.lastRebalance = before.lastRebalance
                      /\ after.totalProfit = before.totalProfit
      ]_vars

(* C27: a portfolio whose autoRebalanceEnabled is off when executeRebalance  *)
(* or batchOptimization is called keeps its currentProtocol, currentYield,   *)
(* lastRebalance and totalProfit, request admitted before or not.            *)
C27_AutoOffNeverRebalanced ==
    [][ \A u \in Users :
          (/\ ~portfolios[u].autoRebalanceEnabled
           /\ lastCall'.op \in {"executeRebalance", "batchOptimization"})
          => /\ portfolios'[u].currentProtocol = portfolios[u].currentProtocol
             /\ portfolios'[u].currentYield = portfolios[u].currentYield
             /\ portfolios'[u].lastRebalance = portfolios[u].lastRebalance
             /\ portfolios'[u].totalProfit = portfolios[u].totalProfit
      ]_vars

(* An executeRebalance of a request admitted while the flag was on, refused  *)
(* because the owner has switched the flag off since; the engine is          *)
(* authorized on the ledger and the portfolio is still where it was          *)
C27_Witness ==
    /\ lastCall.op = "executeRebalance"
    /\ lastCall.err = "Auto-rebalance disabled"
    /\ lastCall.id < requestCounter
    /\ Pending(rebalanceRequests[lastCall.id])
    /\ Engine \in authorizedRebalancers
    /\ portfolios[lastCall.user].totalValue > 0
    /\ ~portfolios[lastCall.user].autoRebalanceEnabled
    /\ portfolios[lastCall.user].currentProtocol = "Aave"

(* The requests in state Executed *)
executedRequests == {id \in RequestIds : id < requestCounter /\ rebalanceRequests[id].executed}

(* C28: metrics.totalRebalances is always the number of requests in state    *)
(* Executed, and totalRebalances, totalProfitGenerated and                   *)
(* averageYieldImprovement change only in a call that returns and in which a *)
(* request becomes Executed: requests, cancellations, executions that fail   *)
(* or revert and batches that execute nothing leave the three as they were.  *)
C28_MetricsCountExecutions ==
    /\ [](metrics.totalRebalances = Cardinality(executedRequests))
    /\ [][ (\/ metrics'.totalRebalances # metrics.totalRebalances
            \/ metrics'.totalProfitGenerated # metrics.totalProfitGenerated
            \/ metrics'.averageYieldImprovement # metrics.averageYieldImprovement)
           => /\ lastCall'.op \in {"executeRebalance", "batchOptimization"}
              /\ lastCall'.ok
              /\ executedRequests' # executedRequests
         ]_vars

(* An executeRebalance that made its request Executed, counted once, while   *)
(* another request has ended Cancelled and is not counted                    *)
C28_Witness ==
    /\ lastCall.op = "executeRebalance"
    /\ lastCall.ok
    /\ lastCall.id \in executedRequests
    /\ metrics.totalRebalances = 1
    /\ metrics.totalProfitGenerated > 0
    /\ \E id \in RequestIds : id < requestCounter /\ rebalanceRequests[id].cancelled

(* C29: whenever checkRebalanceProfitability or _isProfitableRebalance       *)
(* accepts a move with annual profit P = totalValue * (newYield -            *)
(* currentYield) / 10000 at cost c, P * 100 >= c * 115.                      *)
C29_MarginExact ==
    [][ (/\ lastCall'.op \in {"checkRebalanceProfitability", "_isProfitableRebalance"}
         /\ lastCall'.ret = TRUE)
        => LET portfolio == portfolios[lastCall'.user]
               P == (portfolio.totalValue
                     * (lastCall'.args[1] - portfolio.currentYield)) \div 10000
               c == lastCall'.args[2]
           IN  P * 100 >= c * 115
      ]_vars

(* C30: an executeRebalance that makes a request of a user Executed when     *)
(* another request of that user is Executed already comes at least           *)
(* REBALANCE_COOLDOWN after that earlier execution, the time of which the    *)
(* portfolio holds in lastRebalance.                                         *)
C30_ExecutionsCooldownApart ==
    [][ \A id \in RequestIds :
          (/\ Called("executeRebalance") /\ lastCall'.ok /\ lastCall'.id = id
           /\ id < requestCounter
           /\ rebalanceRequests'[id].executed
           /\ \E other \in executedRequests :
                 rebalanceRequests[other].user = rebalanceRequests[id].user)
          => now - portfolios[rebalanceRequests[id].user].lastRebalance >= REBALANCE_COOLDOWN
      ]_vars

----------------------------------------------------------------------------
(* C31: a successful updateYield archives the record that was current just   *)
(* before it as the newest entry of the venue's history; the history never   *)
(* holds more than HistoryCapacity entries, the oldest entry leaving when a   *)
(* full history is archived into; getYieldHistory(protocol, limit) returns   *)
(* min(limit, length) entries, the most recent first.                        *)
C31_HistoryRing ==
    /\ [](\A n \in ProtocolNames : Len(yieldHistory[n]) <= HistoryCapacity)
    /\ [][ /\ (Called("updateYield") /\ lastCall'.ok)
              => LET n == lastCall'.user
                     old == yieldHistory[n]
                     new == yieldHistory'[n]
                 IN  /\ Len(new) > 0
                     /\ new[Len(new)] = [apy |-> protocolYields[n].apy,
                                         timestamp |-> protocolYields[n].timestamp]
                     /\ IF Len(old) < HistoryCapacity
                        THEN new = Append(old, new[Len(new)])
                        ELSE new = Append(Tail(old), new[Len(new)])
           /\ Called("getYieldHistory")
              => LET history == yieldHistory[lastCall'.user]
                     limit == lastCall'.args[1]
                     length == IF limit < Len(history) THEN limit ELSE Len(history)
                     ret == lastCall'.ret
                 IN  /\ Len(ret.apys) = length
                     /\ Len(ret.timestamps) = length
                     /\ \A i \in 1..length :
                           /\ ret.apys[i] = history[Len(history) + 1 - i].apy
                           /\ ret.timestamps[i] = history[Len(history) + 1 - i].timestamp
         ]_vars

----------------------------------------------------------------------------
(* The estimate as the rule gives it, in finney: 5, plus 3 when either leg   *)
(* is Curve, plus 2 when either leg is Yearn                                 *)
pairCost(from, to) ==
    5 + (IF "Curve" \in {from, to} THEN 3 ELSE 0) + (IF "Yearn" \in {from, to} THEN 2 ELSE 0)

(* C32: _estimateGasCost(from, to) is 0.005 plus 0.003 if either leg is      *)
(* Curve plus 0.002 if either leg is Yearn, whatever the state it is asked   *)
(* in; it is the same for (to, from); it is at most MAX_GAS_COST; the        *)
(* requests a batch creates carry that estimate for their pair, so none is   *)
(* refused for its cost.                                                     *)
C32_PairCostEstimate ==
    [][ /\ Called("_estimateGasCost")
           => /\ lastCall'.ret = pairCost(lastCall'.args[1], lastCall'.args[2])
              /\ lastCall'.ret = _estimateGasCost(lastCall'.args[2], lastCall'.args[1])
              /\ lastCall'.ret <= MAX_GAS_COST
              /\ UNCHANGED <<now, ledgerVars, engineVars, oracleVars>>
        /\ (Called("batchOptimization") /\ lastCall'.ok)
           => \A id \in RequestIds :
                (requestCounter <= id /\ id < requestCounter')
                => /\ rebalanceRequests'[id].estimatedGas
                         = pairCost(rebalanceRequests'[id].fromProtocol,
                                    rebalanceRequests'[id].toProtocol)
                   /\ rebalanceRequests'[id].estimatedGas <= MAX_GAS_COST
      ]_vars

(* A batch that has created a request from Aave to Curve, estimated at 8 *)
C32_Witness ==
    /\ lastCall.op = "batchOptimization"
    /\ lastCall.ok
    /\ requestCounter = 1
    /\ rebalanceRequests[0].fromProtocol = "Aave"
    /\ rebalanceRequests[0].toProtocol = "Curve"
    /\ rebalanceRequests[0].estimatedGas = 8

----------------------------------------------------------------------------
(* C33: after n executions metrics.averageYieldImprovement is the integer    *)
(* mean of their yield improvements.  For one owner who created the          *)
(* portfolio once at INITIAL_YIELD, each execution improves on the yield the *)
(* one before left, so the improvements add up to currentYield -             *)
(* INITIAL_YIELD.                                                            *)
C33_AverageIsMean ==
    (metrics.totalRebalances > 0)
    => metrics.averageYieldImprovement
         = (portfolios["alice"].currentYield - INITIAL_YIELD) \div metrics.totalRebalances

----------------------------------------------------------------------------
(* C34: an executeRebalance that makes a request Executed adds to            *)
(* metrics.totalProfitGenerated the profit its RebalanceExecuted event       *)
(* reports, deposits and withdrawals since the admission notwithstanding.    *)
C34_MetricsProfitIsEventProfit ==
    [][ (/\ Called("executeRebalance") /\ lastCall'.ok
         /\ lastCall'.id < requestCounter
         /\ rebalanceRequests'[lastCall'.id].executed)
        => \E i \in 1..Len(lastCall'.events) :
              /\ lastCall'.events[i].name = "RebalanceExecuted"
              /\ lastCall'.events[i].id = lastCall'.id
              /\ metrics'.totalProfitGenerated - metrics.totalProfitGenerated
                    = lastCall'.events[i].profit
      ]_vars

----------------------------------------------------------------------------
(* C35: when an executeRebalance makes a request Executed, the portfolio's   *)
(* currentProtocol just before the call is the request's fromProtocol.       *)
C35_ExecutedFromCurrentVenue ==
    [][ (/\ Called("executeRebalance") /\ lastCall'.ok
         /\ lastCall'.id < requestCounter
         /\ rebalanceRequests'[lastCall'.id].executed)
        => portfolios[rebalanceRequests[lastCall'.id].user].currentProtocol
             = rebalanceRequests[lastCall'.id].fromProtocol
      ]_vars

----------------------------------------------------------------------------
(* C36: once an owner has created a portfolio, its currentProtocol,          *)
(* currentYield and totalProfit change only in a call that runs a rebalance  *)
(* of the ledger, made while the engine is in authorizedRebalancers; no call *)
(* of the owner or of anyone else changes or resets them.                    *)
C36_VenueChangesOnlyByRebalance ==
    [][ \A u \in created :
          (\/ portfolios'[u].currentProtocol # portfolios[u].currentProtocol
           \/ portfolios'[u].currentYield # portfolios[u].currentYield
           \/ portfolios'[u].totalProfit # portfolios[u].totalProfit)
          => /\ lastCall'.op \in {"executeRebalance", "batchOptimization"}
             /\ lastCall'.ok
             /\ Engine \in authorizedRebalancers
      ]_vars

----------------------------------------------------------------------------
(* The sum of totalValue over the portfolios of a set of owners *)
RECURSIVE totalValueOf(_)
totalValueOf(owners) ==
    IF owners = {} THEN 0
    ELSE LET u == CHOOSE x \in owners : TRUE
         IN  portfolios[u].totalValue + totalValueOf(owners \ {u})

(* C37: the ledger always holds at least the sum of totalValue over all      *)
(* portfolios, so that each owner's withdrawal of their whole totalValue can *)
(* be paid.                                                                  *)
C37_LedgerCoversPortfolios ==
    /\ ledgerBalance >= totalValueOf(Users)
    /\ \A u \in Users :
          (~ledgerPaused /\ portfolios[u].totalValue > 0)
          => withdrawFundsErr(u, portfolios[u].totalValue) = ""

----------------------------------------------------------------------------
(* The amounts of the FundsWithdrawn events among the first i events *)
RECURSIVE paidOut(_, _)
paidOut(events, i) ==
    IF i = 0 THEN 0
    ELSE paidOut(events, i - 1)
         + (IF events[i].name = "FundsWithdrawn" THEN events[i].amount ELSE 0)

(* C38: when the recipient of withdrawFunds calls back into the ledger       *)
(* during the transfer, its nested withdrawFunds or depositFunds reverts; a  *)
(* withdrawal that returns has paid out no more than the totalValue the      *)
(* owner had, has taken from the ledger exactly what it took from that       *)
(* totalValue and leaves totalValue equal to what the owner put in less what *)
(* was paid out; one that reverts changes nothing.                           *)
C38_NoReentrantOverdraw ==
    [][ Called("withdrawFunds")
        => LET u == lastCall'.caller IN
           /\ (lastCall'.args[1] \in {"withdrawFunds", "depositFunds"}
                /\ lastCall'.ret # "not called")
              => lastCall'.ret = "ReentrancyGuard: reentrant call"
           /\ lastCall'.ok
              => /\ paidOut(lastCall'.events, Len(lastCall'.events))
                      <= portfolios[u].totalValue
                 /\ ledgerBalance' - ledgerBalance
                      = portfolios'[u].totalValue - portfolios[u].totalValue
                 /\ portfolios'[u].totalValue >= 0
                 /\ portfolios'[u].totalValue = netDeposits'[u]
           /\ ~lastCall'.ok => UNCHANGED <<ledgerVars, engineVars, oracleVars>>
      ]_vars

(* A withdrawal of 9950 that has returned although the recipient tried a     *)
(* nested withdrawFunds of 50, refused, and swallowed the revert; the ledger *)
(* still holds the other owner's funds                                       *)
C38_Witness ==
    /\ lastCall.op = "withdrawFunds"
    /\ lastCall.ok
    /\ lastCall.amt = 9950
    /\ lastCall.args = <<"withdrawFunds", 50, TRUE>>
    /\ lastCall.ret = "ReentrancyGuard: reentrant call"
    /\ portfolios[lastCall.caller].totalValue = 50
    /\ ledgerBalance > 9950

====
